---- MODULE Spec2Model ----
(***************************************************************************)
(* Ingestion pipeline of scrapesavee: the RabbitMQ job queue (producer,    *)
(* JobConsumer / ItemConsumer), the core.blocks / cms.blocks_overrides     *)
(* tables with the two block upserts, and the R2 media store.              *)
(***************************************************************************)
EXTENDS Integers, Naturals, Sequences, FiniteSets, TLC

(* ------------------------------ bounds --------------------------------- *)
\* jobs the producer may publish in one behaviour
MaxJobs == 2
\* workers of the item consumer that are modelled (the pool has ItemConcurrency)
MaxWorkers == 2
\* the count of failed deliveries of a job saturates here (above ItemMaxRetries)
MaxFails == 6
\* item jobs published next to the editorial repository
DbJobs == 1
\* concurrent upload_file calls
MaxCallers == 2
\* put_object calls for one key in one behaviour
MaxPuts == 3
\* the largest retry_count a delivered message carries
MaxRetryCount == 7
\* listing jobs configured next to each other
MaxSemJobs == 3
\* the scroll rounds counted one by one; loops stays at this count beyond it
MaxScrollRounds == 4
\* the largest SCROLL_IDLE_ROUNDS
MaxIdleRounds == 2
\* calls of upload_image in one behaviour
MaxCalls == 3
\* elements of a listing page handed to find_item_links_in_html
MaxElements == 3
\* items the site publishes while two jobs crawl it
MaxCrawlIds == 2
\* items the site publishes while one job crawls it
MaxCycleIds == 3
\* items on the listing a single job crawls from end to end
FlushIds == 6
\* links on the listing of a swept source
MaxSweepLinks == 3
\* items on a listing that stays as it is while one job crawls it
MaxDrainIds == 3
\* sweep jobs and CLI source runs handled in one behaviour
MaxRuns == 2
\* items scrape_listing returns to a CLI source run
MaxRunItems == 2

(* ------------------------- program constants --------------------------- *)
ItemMaxRetries == 5
DefaultMaxRetries == 3
ItemConcurrency == 10
\* run_cycle saves seen.json after every FlushEvery-th processed item
FlushEvery == 5

\* the count of rounds saturates above the rounds a listing can need
MaxRounds == MaxDrainIds + 1
\* the callers of upload_file that run next to each other
Callers == 1..MaxCallers
\* a caller that is not inside upload_file
NoUpload == [pc |-> "idle", key |-> <<>>]
\* no scroll loop is running
NoScroll == [pc |-> "idle", loop |-> "None"]
\* the listing jobs that share the semaphore of main()
SemJobs == 1..MaxSemJobs

Workers == 1..MaxWorkers
JobIds == 1..MaxJobs

\* the source and the item URL of the jobs that are published
Sources == {"s1"}
ItemUrls == {"/i/a"}
ExternalIds == {"a"}

Min(a, b) == IF a < b THEN a ELSE b
Max(a, b) == IF a > b THEN a ELSE b

(* --------------------------- the item pages ---------------------------- *)
\* What the site serves for an item: title, description, tags and the media
\* element.  A page without a media URL is one _scrape_item returns None for.
ImagePage ==
    [title |-> "t1", description |-> "d1", tags |-> <<"art">>,
     media_type |-> "image", media_url |-> "m1.png", thumbnail |-> TRUE]
VideoPage ==
    [title |-> "t2", description |-> "None", tags |-> <<>>,
     media_type |-> "video", media_url |-> "m2.mp4", thumbnail |-> TRUE]
BarePage ==
    [title |-> "None", description |-> "None", tags |-> <<>>,
     media_type |-> "None", media_url |-> "None", thumbnail |-> FALSE]
PageStates == {ImagePage, VideoPage, BarePage}

\* window.location.pathname.split('/').filter(Boolean).pop()
PathExternalId(item_url) ==
    CASE item_url = "/i/a" -> "a"
      [] item_url = "/i/a/" -> "a"

NoItem ==
    [external_id |-> "None", title |-> "None", description |-> "None", tags |-> <<>>,
     media_type |-> "None", media_url |-> "None", thumbnail |-> FALSE,
     source_url |-> "None"]

\* SaveeScraper._scrape_item: None when the page shows no media URL
ScrapeItem(pg, item_url) ==
    IF pg.media_url = "None"
    THEN NoItem
    ELSE [external_id |-> PathExternalId(item_url), title |-> pg.title,
          description |-> pg.description, tags |-> pg.tags,
          media_type |-> pg.media_type, media_url |-> pg.media_url,
          thumbnail |-> pg.thumbnail, source_url |-> item_url]

(* ------------------------------ messages ------------------------------- *)
NoMsg ==
    [job_id |-> 0, item_url |-> "None", source_id |-> "None",
     retry_count |-> 0, max_retries |-> 0, last_error |-> "None"]

\* JobProducer.queue_item_job: the job_data that is serialised into the message
ItemJobData(job_id, item_url, source_id) ==
    [job_id |-> job_id, item_url |-> item_url, source_id |-> source_id,
     retry_count |-> 0, max_retries |-> ItemMaxRetries, last_error |-> "None"]

(* ----------------------------- core.blocks ----------------------------- *)
NoKey == <<>>

\* f"{base_key}/{variant}_{content_hash}{ext}" of the media behind media_url
MediaKey(external_id, variant, media_url) == <<"blocks", external_id, variant, media_url>>

RowsOf(rows, source_id, external_id) ==
    {r \in rows : r.source_id = source_id /\ r.external_id = external_id}

\* a table created without the constraint
NoUniqueConstraint(rows, source_id, external_id) == FALSE

\* sa.UniqueConstraint('source_id', 'external_id', name='uq_core_blocks_source_external')
UniqueViolation(rows, source_id, external_id) ==
    RowsOf(rows, source_id, external_id) # {}

\* the columns of a row that come from the scrape
RawFields(r) ==
    [title_raw |-> r.title_raw, description_raw |-> r.description_raw,
     tags_raw |-> r.tags_raw, media_type |-> r.media_type, media_key |-> r.media_key,
     video_poster_key |-> r.video_poster_key, url |-> r.url,
     source_original_url |-> r.source_original_url, sidebar_info |-> r.sidebar_info]

NoSidebar == [tags |-> <<>>, aiTags |-> <<>>]

\* ARRAY / Text columns that may be NULL hold <<>> for NULL and <<v>> for v
Null == <<>>
Some(v) == <<v>>

(* ------------------------- the block upserts --------------------------- *)
\* tag.strip()
Strip(tag) ==
    CASE tag = " art" -> "art"
      [] tag = " " -> ""
      [] OTHER -> tag

\* [tag.strip() for tag in tags_raw if tag and tag.strip()], as a set
CleanTags(tags) ==
    {Strip(tags[i]) : i \in {k \in DOMAIN tags : tags[k] # "" /\ Strip(tags[k]) # ""}}

\* list(set(...)): the elements once each, in an order the set decides
Orderings(S) ==
    {q \in [1..Cardinality(S) -> S] : \A x \in S : \E i \in DOMAIN q : q[i] = x}

\* a or b, for object keys
OrKey(a, b) == IF a # NoKey THEN a ELSE b

\* media_keys.get('video') or media_keys.get('image') for a video, else
\* media_keys.get('image')
PrimaryMediaKey(parsed_item, media_keys) ==
    IF parsed_item.media_type = "video"
    THEN OrKey(media_keys.video, media_keys.image)
    ELSE media_keys.image

\* media_keys.get('poster') or media_keys.get('image') for a video, else None
PosterKey(parsed_item, media_keys) ==
    IF parsed_item.media_type = "video"
    THEN OrKey(media_keys.poster, media_keys.image)
    ELSE NoKey

\* upsert_data of BlocksRepository.upsert_block_from_parsed_item
RepoUpsertData(source_id, parsed_item, media_keys, tags_raw) ==
    [source_id |-> source_id, external_id |-> parsed_item.item_id,
     title_raw |-> parsed_item.og_title, description_raw |-> parsed_item.og_description,
     tags_raw |-> tags_raw, media_type |-> parsed_item.media_type,
     media_key |-> PrimaryMediaKey(parsed_item, media_keys),
     video_poster_key |-> PosterKey(parsed_item, media_keys),
     url |-> parsed_item.page_url,
     source_original_url |-> parsed_item.source_original_url,
     sidebar_info |-> parsed_item.sidebar_info]

\* upsert_data of cli._upsert_block
CliUpsertData(source_id, it, media_key, video_poster_key) ==
    [source_id |-> source_id, external_id |-> it.external_id,
     title_raw |-> it.title, description_raw |-> it.description, tags_raw |-> it.tags,
     media_type |-> it.media_type, media_key |-> media_key,
     video_poster_key |-> video_poster_key, url |-> it.source_url,
     source_original_url |-> it.media_url, sidebar_info |-> NoSidebar]

\* the row INSERT ... VALUES (**upsert_data) creates; created_at takes its
\* server default, the time of the INSERT, counted here in inserted rows
NewRow(id, data) ==
    [id |-> id, created_at |-> id,
     source_id |-> data.source_id, external_id |-> data.external_id,
     title_raw |-> data.title_raw, description_raw |-> data.description_raw,
     tags_raw |-> data.tags_raw, media_type |-> data.media_type,
     media_key |-> data.media_key, video_poster_key |-> data.video_poster_key,
     url |-> data.url, source_original_url |-> data.source_original_url,
     sidebar_info |-> data.sidebar_info]

\* DO UPDATE SET <every raw column> = excluded.<column>; id, source_id,
\* external_id and created_at are not in set_
UpdatedRow(r, data) == [NewRow(r.id, data) EXCEPT !.created_at = r.created_at]

\* ON CONFLICT DO NOTHING: the existing row is kept as it is
OnConflictDoNothing(db, data) ==
    IF UniqueViolation(db.blocks, data.source_id, data.external_id)
    THEN db
    ELSE [db EXCEPT !.blocks = @ \cup {NewRow(db.nextId + 1, data)},
                    !.nextId = @ + 1]

\* DELETE of the existing row (its override goes with it, ON DELETE CASCADE),
\* then INSERT of a new one
DeleteThenInsert(db, data) ==
    LET hit == RowsOf(db.blocks, data.source_id, data.external_id)
    IN [blocks |-> (db.blocks \ hit) \cup {NewRow(db.nextId + 1, data)},
        nextId |-> db.nextId + 1,
        overrides |-> {o \in db.overrides : \A r \in hit : o.block_id # r.id}]

\* insert(Block).values(**upsert_data).on_conflict_do_update(
\*     constraint='uq_core_blocks_source_external', set_={...})
OnConflictDoUpdate(db, data) ==
    IF UniqueViolation(db.blocks, data.source_id, data.external_id)
    THEN [db EXCEPT !.blocks =
             {IF r.source_id = data.source_id /\ r.external_id = data.external_id
              THEN UpdatedRow(r, data) ELSE r : r \in @}]
    ELSE [db EXCEPT !.blocks = @ \cup {NewRow(db.nextId + 1, data)},
                    !.nextId = @ + 1]

\* the statement one upsert call executes
UpsertStatement(db, data) == OnConflictDoUpdate(db, data)

NoData ==
    [source_id |-> "None", external_id |-> "None", title_raw |-> "None",
     description_raw |-> "None", tags_raw |-> <<>>, media_type |-> "None",
     media_key |-> NoKey, video_poster_key |-> NoKey, url |-> "None",
     source_original_url |-> "None", sidebar_info |-> NoSidebar]

NoOp ==
    [op |-> "None", ok |-> FALSE, data |-> NoData, conflict |-> FALSE,
     changed |-> FALSE, block_id |-> 0, had_override |-> FALSE]

\* what a call of an upsert leaves in lastOp
CallRecord(op, ok, data, rows, ovr) ==
    LET hit == RowsOf(rows, data.source_id, data.external_id)
    IN [op |-> op, ok |-> ok, data |-> data, conflict |-> hit # {},
        changed |-> \E r \in hit : RawFields(r) # RawFields(NewRow(r.id, data)),
        block_id |-> IF hit = {} THEN 0 ELSE (CHOOSE r \in hit : TRUE).id,
        had_override |-> \E r \in hit, o \in ovr : o.block_id = r.id]

VARIABLES
    nextJob,    \* number of jobs published so far (job ids are fresh)
    msgs,       \* job id -> body of its message
    loc,        \* job id -> where the message is
    fails,      \* job id -> deliveries whose processing raised (saturating)
    pc,         \* worker -> position in _consume_worker / process_message
    cur,        \* worker -> job id of the delivery it holds
    item,       \* worker -> the ScrapedItem of the delivery
    keys,       \* worker -> media_key and video_poster_key of the delivery
    err,        \* worker -> the exception process_message raised
    outcome,    \* worker -> how process_message ended for the delivery
    settled,    \* worker -> the ack / nack calls made for the delivery
    page,       \* external id -> what the site serves now
    blocks,     \* rows of core.blocks
    nextId,     \* number of block ids generated so far
    overrides,  \* rows of cms.blocks_overrides
    lastOp,     \* the latest call of a block upsert, and what it found
    bucket,     \* keys of the objects in the R2 bucket
    puts,       \* per object key, the put_object calls that wrote it
    calls,      \* the calls of upload_image so far, oldest first
    listing,    \* the DOM of a listing page handed to find_item_links_in_html
    collected,  \* whether the scrolling script left its data-savee-* attributes
    links,      \* the item ids of the links find_item_links_in_html returned
    discovered, \* whether find_item_links_in_html has returned
    cfg,        \* the jobs and settings main() read from the environment
    ran,        \* the jobs whose run_cycle main() has started in this round
    feed,       \* how many items the listings of the site show
    seenFile,   \* directory name -> the ids in its _state/seen.json
    itemDirs,   \* directory name -> the item directories under it
    metas,      \* directory name -> the items whose meta.json is written
    cpc,        \* job -> position in run_cycle
    cseen,      \* job -> the set seen of its cycle
    clinks,     \* job -> the links of its cycle
    cidx,       \* job -> position of the for loop in links
    ccount,     \* job -> processed_count
    cstart,     \* job -> seen as it was when the loop began
    touched,    \* job -> the ids it ever made an item directory for
    completed,  \* job -> the ids whose process_item it ever completed
    again,      \* job -> the ids whose process_item it completed twice
    everSaved,  \* directory name -> every id ever written to its seen.json
    crashed,    \* whether the process was ever killed
    sweepPage,  \* the item links of the listing a source is swept from
    sweepMax,   \* max_items of the sweeps
    seen_items, \* SaveeScraper.seen_items
    spc,        \* position of SweepConsumer.process_message
    items,      \* the items scrape_listing returned to the sweep
    enqueued,   \* the item URLs the sweeps have queued as item jobs
    rounds,     \* the rounds of main() that have ended, up to MaxRounds
    runs,       \* the rows of public.runs, as committed
    job,        \* the sweep job or CLI source run that is being handled
    txn,        \* the transaction of the CLI's session: "ok" or "aborted"
    stored,     \* the items whose block the CLI upserted and committed
    injected,   \* the items whose own upload or upsert was made to fail
    stopped,    \* WorkerApplication.stop has cancelled the consumers
    held,       \* the jobs that were in flight when the consumers were cancelled
    view,       \* the last read of cms.v_blocks, with the tables it was read from
    job_concurrency, \* JOB_CONCURRENCY as main() read it
    sem,        \* the value of the semaphore of main()
    phase,      \* listing job -> where its run_one_job task is in the round
    slept,      \* job -> the last two delays handle_message_error slept for it
    upc,        \* caller -> where its upload_file call is
    scroll      \* the scroll loop of the listing page

vars ==
    <<nextJob, msgs, loc, fails, pc, cur, item, keys, err, outcome, settled,
      page, blocks, nextId, overrides, lastOp, bucket, puts, calls,
      listing, collected, links, discovered,
      cfg, ran, feed, seenFile, itemDirs, metas, cpc, cseen, clinks, cidx, ccount,
      cstart, touched, completed, again, everSaved, crashed,
      sweepPage, sweepMax, seen_items, spc, items, enqueued, rounds,
      runs, job, txn, stored, injected, stopped, held, view,
      job_concurrency, sem, phase, slept, upc, scroll>>

workerVars == <<pc, cur, item, keys, err, outcome, settled>>
dbVars == <<blocks, nextId, overrides, lastOp>>
storeVars == <<bucket, puts, calls>>
pipeVars == <<nextJob, msgs, loc, pc, cur, item, keys, err, outcome, settled, page>>
discoverVars == <<listing, collected, links, discovered>>
cycleVars == <<cpc, cseen, clinks, cidx, ccount, cstart>>
diskVars == <<seenFile, itemDirs, metas>>
traceVars == <<touched, completed, again, everSaved, crashed>>
crawlVars == <<cfg, ran, feed, diskVars, cycleVars, traceVars>>
sweepVars == <<sweepPage, sweepMax, seen_items, spc, items, enqueued>>
\* what the consumers and the repositories leave alone
runVars == <<runs, job, txn, stored, injected>>
\* the worker application
semVars == <<job_concurrency, sem, phase>>
\* what the observers write
obsVars == <<fails, slept>>
lateVars == <<upc, scroll>>
appVars == <<stopped, held, view, semVars, lateVars>>
crawlerVars == <<discoverVars, crawlVars, sweepVars, rounds, runVars, appVars>>
\* what the standalone scraper leaves alone
ingestVars ==
    <<pipeVars, obsVars, dbVars, storeVars, sweepVars, rounds, runVars, appVars>>
\* what the sweep consumer leaves alone
notSweepVars ==
    <<pipeVars, obsVars, dbVars, storeVars, discoverVars, crawlVars, rounds,
      runVars, appVars>>
\* what the handling of a run leaves alone
notRunVars ==
    <<pipeVars, obsVars, dbVars, storeVars, discoverVars, crawlVars, rounds,
      sweepVars, appVars>>

NoKeys == [media_key |-> NoKey, video_poster_key |-> NoKey]

\* the counters of _process_source
NoCounters ==
    [items_found |-> 0, items_uploaded |-> 0, items_upserted |-> 0, errors |-> 0]

\* no sweep job and no CLI source run is being handled
NoRunJob ==
    [mode |-> "none", pc |-> "idle", run |-> 0, loaded |-> FALSE, todo |-> <<>>,
     at |-> 0, counters |-> NoCounters, outcome |-> "none"]

\* no job published, every worker waiting for a delivery, the tables empty
InitPipeline ==
    /\ rounds = 0
    /\ stopped = FALSE
    /\ held = {}
    /\ view = [read |-> FALSE, rows |-> {}, blocks |-> {}, overrides |-> {}]
    /\ job_concurrency = 2
    /\ sem = 0
    /\ phase = [j \in SemJobs |-> "unstarted"]
    /\ slept = [j \in JobIds |-> <<>>]
    /\ upc = [c \in Callers |-> NoUpload]
    /\ scroll = NoScroll
    /\ runs = <<>>
    /\ job = NoRunJob
    /\ txn = "ok"
    /\ stored = {}
    /\ injected = {}
    /\ nextJob = 0
    /\ msgs = [j \in JobIds |-> NoMsg]
    /\ loc = [j \in JobIds |-> "unpublished"]
    /\ fails = [j \in JobIds |-> 0]
    /\ pc = [w \in Workers |-> "idle"]
    /\ cur = [w \in Workers |-> 0]
    /\ item = [w \in Workers |-> NoItem]
    /\ keys = [w \in Workers |-> NoKeys]
    /\ err = [w \in Workers |-> "None"]
    /\ outcome = [w \in Workers |-> "none"]
    /\ settled = [w \in Workers |-> <<>>]
    /\ blocks = {}
    /\ nextId = 0
    /\ overrides = {}
    /\ lastOp = NoOp
    /\ bucket = {}
    /\ puts = <<>>
    /\ calls = <<>>

(* ------------------ savee_scraper.py: names of the jobs ----------------- *)
\* characters of the class [A-Za-z0-9_-] that occur in the modelled pages
ClassChars ==
    {"a", "b", "c", "d", "e", "f", "i", "l", "m", "n", "o", "r", "s", "t", "u",
     "v", "Z", "0", "1", "2", "3", "4", "5", "6", "7", "8", "9", "_", "-"}

\* characters a file name keeps: [A-Za-z0-9._-]
FileChars == ClassChars \cup {"."}

RECURSIVE DropWhile(_, _)
DropWhile(s, chars) ==
    IF s # <<>> /\ Head(s) \in chars THEN DropWhile(Tail(s), chars) ELSE s

Reverse(s) == [i \in 1..Len(s) |-> s[Len(s) + 1 - i]]

\* re.sub(r"[^A-Za-z0-9._-]+", "_", name)
RECURSIVE Squash(_)
Squash(s) ==
    IF s = <<>> THEN <<>>
    ELSE IF Head(s) \in FileChars THEN <<Head(s)>> \o Squash(Tail(s))
    ELSE LET rest == Tail(s)
             kept == IF rest # <<>> /\ Head(rest) \notin FileChars
                     THEN Tail(Squash(rest))
                     ELSE Squash(rest)
         IN <<"_">> \o kept

\* str.strip("._")
StripDots(s) ==
    Reverse(DropWhile(Reverse(DropWhile(s, {".", "_"})), {".", "_"}))

sanitize_filename(name) ==
    LET clean == StripDots(Squash(name))
    IN IF clean = <<>> THEN <<"f", "i", "l", "e">> ELSE clean

RECURSIVE JoinDash(_)
JoinDash(segments) ==
    IF segments = <<>> THEN <<>>
    ELSE IF Len(segments) = 1 THEN Head(segments)
    ELSE Head(segments) \o <<"-">> \o JoinDash(Tail(segments))

\* a URL is its netloc and the segments of its path
job_slug_for_url(url) ==
    LET slug == IF url.path = <<>> THEN url.netloc
                ELSE url.netloc \o <<"-">> \o JoinDash(url.path)
    IN sanitize_filename(slug)

NoName == <<>>

dir_name_for_job(url, name) ==
    IF name # NoName THEN sanitize_filename(name)
    ELSE IF url.path # <<>> /\ url.path[Len(url.path)] # <<>>
         THEN sanitize_filename(url.path[Len(url.path)])
         ELSE job_slug_for_url(url)

Savee == <<"s", "a", "v", "e", "e", ".", "c", "o", "m">>
SegAlice == <<"a", "l", "i", "c", "e">>
SegBob == <<"b", "o", "b">>
SegUi == <<"u", "i">>
SegArt == <<"a", "r", "t", " ", "1">>

\* the listing URLs given to the jobs
UrlAliceUi == [netloc |-> Savee, path |-> <<SegAlice, SegUi>>]
UrlBobUi == [netloc |-> Savee, path |-> <<SegBob, SegUi>>]
UrlBobArt == [netloc |-> Savee, path |-> <<SegBob, SegArt>>]
UrlHome == [netloc |-> Savee, path |-> <<>>]
JobUrls == {UrlAliceUi, UrlBobUi, UrlBobArt, UrlHome}

DirNames == {dir_name_for_job(u, NoName) : u \in JobUrls}

\* main(): job_download_root = base_download_root / dir_name, and
\* seen_path = job_download_root / "_state" / "seen.json"
CrawlJobs == DOMAIN cfg.jobs
DirOf(j) == dir_name_for_job(cfg.jobs[j].url, cfg.jobs[j].name)

\* the standalone scraper (savee_scraper.py) has not run
InitListing ==
    /\ listing = <<>>
    /\ collected = FALSE
    /\ links = <<>>
    /\ discovered = FALSE

\* no cycle of the jobs in jobs has run: nothing is on disk
InitJobs(jobs) ==
    /\ seenFile = [d \in DirNames |-> {}]
    /\ itemDirs = [d \in DirNames |-> {}]
    /\ metas = [d \in DirNames |-> {}]
    /\ cpc = [j \in DOMAIN jobs |-> "idle"]
    /\ cseen = [j \in DOMAIN jobs |-> {}]
    /\ clinks = [j \in DOMAIN jobs |-> <<>>]
    /\ cidx = [j \in DOMAIN jobs |-> 0]
    /\ ccount = [j \in DOMAIN jobs |-> 0]
    /\ cstart = [j \in DOMAIN jobs |-> {}]
    /\ touched = [j \in DOMAIN jobs |-> {}]
    /\ completed = [j \in DOMAIN jobs |-> {}]
    /\ again = [j \in DOMAIN jobs |-> {}]
    /\ everSaved = [d \in DirNames |-> {}]
    /\ crashed = FALSE
    /\ ran = {}

\* no source is swept
NoSweep ==
    /\ sweepPage = <<>>
    /\ sweepMax = 50
    /\ seen_items = {}
    /\ spc = "idle"
    /\ items = <<>>
    /\ enqueued = {}

InitCycles(jobs) == InitJobs(jobs) /\ NoSweep

\* main() with an empty JOBS_JSON and the defaults of the environment
NoJobs ==
    [jobs |-> <<>>, skip_existing |-> TRUE, oldest_first |-> FALSE,
     max_items_per_cycle |-> 50]

InitCrawler ==
    /\ InitListing
    /\ cfg = NoJobs
    /\ feed = 0
    /\ InitCycles(<<>>)

Init ==
    /\ InitPipeline
    /\ InitCrawler
    /\ page = [e \in ExternalIds |-> ImagePage]

(* ------------------------------ producer ------------------------------- *)
\* a generator that hands out one id to every caller
SameId(n) == 1

\* str(uuid4()), for the n-th id the process draws: an id no earlier call got
uuid4(n) == n

\* JobProducer.queue_item_job
QueueItemJob(item_url, source_id) ==
    /\ nextJob < MaxJobs
    /\ nextJob' = nextJob + 1
    /\ msgs' = [msgs EXCEPT ![nextJob + 1] =
                   ItemJobData(uuid4(nextJob + 1), item_url, source_id)]
    /\ loc' = [loc EXCEPT ![nextJob + 1] = "ready"]
    /\ UNCHANGED <<workerVars, page, dbVars, storeVars, crawlerVars>>

\* JobProducer.queue_sweep_job: the job_data that is serialised into the message
SweepJobData(job_id, source_id, sweep_type) ==
    [job_id |-> job_id, item_url |-> "None", source_id |-> source_id,
     sweep_type |-> sweep_type, retry_count |-> 0, max_retries |-> DefaultMaxRetries,
     last_error |-> "None"]

SweepTypes == {"tail", "backfill"}

\* JobProducer.queue_sweep_job: the message waits in sweep.<sweep_type>
QueueSweepJob(source_id, sweep_type) ==
    /\ nextJob < MaxJobs
    /\ nextJob' = nextJob + 1
    /\ msgs' = [msgs EXCEPT ![nextJob + 1] =
                   SweepJobData(uuid4(nextJob + 1), source_id, sweep_type)]
    /\ loc' = [loc EXCEPT ![nextJob + 1] = "sweep_ready"]
    /\ UNCHANGED <<workerVars, page, dbVars, storeVars, crawlerVars>>

(* ------------------------------- broker -------------------------------- *)
\* x-message-ttl of the main queue: a waiting message that outlives it is
\* dead-lettered through x-dead-letter-exchange to "<routing_key>.dlq"
ExpireMessage(j) ==
    /\ loc[j] = "ready"
    /\ loc' = [loc EXCEPT ![j] = "dlq"]
    /\ UNCHANGED <<nextJob, msgs, workerVars, page, dbVars, storeVars, crawlerVars>>

(* ------------------------------ the site ------------------------------- *)
SiteChange(e) ==
    /\ \E pg \in PageStates \ {page[e]} : page' = [page EXCEPT ![e] = pg]
    /\ UNCHANGED <<nextJob, msgs, loc, workerVars, dbVars, storeVars, crawlerVars>>

(* --------------------- JobConsumer._consume_worker --------------------- *)
\* async for message in self.queue: a waiting worker takes the next delivery.
\* The workers run the same code, so the delivery goes to the first that waits.
Deliver(w, j) ==
    /\ pc[w] = "idle"
    /\ \A v \in Workers : pc[v] = "idle" => w <= v
    /\ loc[j] = "ready"
    /\ loc' = [loc EXCEPT ![j] = "inflight"]
    /\ pc' = [pc EXCEPT ![w] = "scrape"]
    /\ cur' = [cur EXCEPT ![w] = j]
    /\ item' = [item EXCEPT ![w] = NoItem]
    /\ keys' = [keys EXCEPT ![w] = NoKeys]
    /\ err' = [err EXCEPT ![w] = "None"]
    /\ outcome' = [outcome EXCEPT ![w] = "none"]
    /\ settled' = [settled EXCEPT ![w] = <<>>]
    /\ UNCHANGED <<nextJob, msgs, page, dbVars, storeVars, crawlerVars>>

\* an except clause that swallows the error and falls through to the ack
AckWhatever(result) == "ack"

\* try: process_message; message.ack()  except Exception: handle_message_error
AfterProcess(result) == IF result = "returned" THEN "ack" ELSE "error"

\* process_message raised e
Raise(w, e) ==
    /\ pc' = [pc EXCEPT ![w] = AfterProcess("raised")]
    /\ err' = [err EXCEPT ![w] = e]
    /\ outcome' = [outcome EXCEPT ![w] = "raised"]

\* process_message returned
Return(w) ==
    /\ pc' = [pc EXCEPT ![w] = AfterProcess("returned")]
    /\ outcome' = [outcome EXCEPT ![w] = "returned"]
    /\ UNCHANGED err

(* ------------------- ItemConsumer.process_message ---------------------- *)
\* scrape the item page; no item raises ValueError
Scrape(w) ==
    /\ pc[w] = "scrape"
    /\ LET job_data == msgs[cur[w]]
           it == ScrapeItem(page[PathExternalId(job_data.item_url)], job_data.item_url)
       IN IF it = NoItem
          THEN /\ Raise(w, "ValueError")
               /\ UNCHANGED item
          ELSE /\ item' = [item EXCEPT ![w] = it]
               /\ pc' = [pc EXCEPT ![w] = "check"]
               /\ UNCHANGED <<err, outcome>>
    /\ UNCHANGED <<nextJob, msgs, loc, cur, keys, settled, page, dbVars, storeVars, crawlerVars>>

\* select(Block) by (source_id, external_id); a row found ends the job
CheckExisting(w) ==
    /\ pc[w] = "check"
    /\ IF RowsOf(blocks, msgs[cur[w]].source_id, item[w].external_id) # {}
       THEN Return(w)
       ELSE /\ pc' = [pc EXCEPT ![w] = "upload"]
            /\ UNCHANGED <<err, outcome>>
    /\ UNCHANGED <<nextJob, msgs, loc, cur, item, keys, settled, page, dbVars, storeVars, crawlerVars>>

\* upload_image / upload_video, then the poster of a video, whose failure is
\* swallowed
Upload(w) ==
    /\ pc[w] = "upload"
    /\ \/ /\ Raise(w, "UploadError")
          /\ UNCHANGED keys
       \/ /\ item[w].media_type = "image"
          /\ keys' = [keys EXCEPT ![w] =
                 [media_key |-> MediaKey(item[w].external_id, "original", item[w].media_url),
                  video_poster_key |-> NoKey]]
          /\ pc' = [pc EXCEPT ![w] = "insert"]
          /\ UNCHANGED <<err, outcome>>
       \/ /\ item[w].media_type = "video"
          /\ \E poster \in {NoKey} \cup
                    (IF item[w].thumbnail
                     THEN {MediaKey(item[w].external_id, "original", "poster")}
                     ELSE {}) :
                keys' = [keys EXCEPT ![w] =
                    [media_key |-> MediaKey(item[w].external_id, "video", item[w].media_url),
                     video_poster_key |-> poster]]
          /\ pc' = [pc EXCEPT ![w] = "insert"]
          /\ UNCHANGED <<err, outcome>>
    /\ UNCHANGED <<nextJob, msgs, loc, cur, item, settled, page, dbVars, storeVars, crawlerVars>>

\* Block(...) of the scraped item
ConsumerBlock(id, source_id, it, k) ==
    [id |-> id, created_at |-> id,
     source_id |-> source_id, external_id |-> it.external_id,
     title_raw |-> it.title, description_raw |-> it.description, tags_raw |-> it.tags,
     media_type |-> it.media_type, media_key |-> k.media_key,
     video_poster_key |-> k.video_poster_key, url |-> it.source_url,
     source_original_url |-> it.media_url, sidebar_info |-> NoSidebar]

\* session.add(block); session.commit(): a plain INSERT
Insert(w) ==
    /\ pc[w] = "insert"
    /\ IF UniqueViolation(blocks, msgs[cur[w]].source_id, item[w].external_id)
       THEN /\ Raise(w, "IntegrityError")
            /\ UNCHANGED dbVars
       ELSE /\ blocks' = blocks \cup
                   {ConsumerBlock(nextId + 1, msgs[cur[w]].source_id, item[w], keys[w])}
            /\ nextId' = nextId + 1
            /\ UNCHANGED <<overrides, lastOp>>
            /\ Return(w)
    /\ UNCHANGED <<nextJob, msgs, loc, cur, item, keys, settled, page, storeVars, crawlerVars>>

(* --------------------- settling the delivery --------------------------- *)
\* await message.ack()
Ack(w) ==
    /\ pc[w] = "ack"
    /\ settled' = [settled EXCEPT ![w] = Append(@, "ack")]
    /\ loc' = [loc EXCEPT ![cur[w]] = "acked"]
    /\ pc' = [pc EXCEPT ![w] = "idle"]
    /\ cur' = [cur EXCEPT ![w] = 0]
    /\ item' = [item EXCEPT ![w] = NoItem]
    /\ keys' = [keys EXCEPT ![w] = NoKeys]
    /\ err' = [err EXCEPT ![w] = "None"]
    /\ UNCHANGED <<nextJob, msgs, outcome, page, dbVars, storeVars, crawlerVars>>

\* the ack never reaches the broker (the connection drops): the broker
\* returns the unacknowledged delivery to its queue
AckLost(w) ==
    /\ pc[w] = "ack"
    /\ loc' = [loc EXCEPT ![cur[w]] = "ready"]
    /\ pc' = [pc EXCEPT ![w] = "idle"]
    /\ cur' = [cur EXCEPT ![w] = 0]
    /\ item' = [item EXCEPT ![w] = NoItem]
    /\ keys' = [keys EXCEPT ![w] = NoKeys]
    /\ err' = [err EXCEPT ![w] = "None"]
    /\ UNCHANGED <<nextJob, msgs, outcome, settled, page, dbVars, storeVars, crawlerVars>>

\* JobConsumer.handle_message_error.  job_data is a copy parsed from the body;
\* the retry_count and last_error written into it are not published:
\* message.nack(requeue=True) returns the message as it was delivered.
HandleMessageError(w) ==
    /\ pc[w] = "error"
    /\ LET job_data == msgs[cur[w]]
           retry_count == job_data.retry_count
           max_retries == job_data.max_retries
       IN IF retry_count < max_retries
          THEN /\ settled' = [settled EXCEPT ![w] = Append(@, "nack_requeue")]
               /\ loc' = [loc EXCEPT ![cur[w]] = "ready"]
          ELSE /\ settled' = [settled EXCEPT ![w] = Append(@, "nack")]
               /\ loc' = [loc EXCEPT ![cur[w]] = "dlq"]
    /\ pc' = [pc EXCEPT ![w] = "idle"]
    /\ cur' = [cur EXCEPT ![w] = 0]
    /\ item' = [item EXCEPT ![w] = NoItem]
    /\ keys' = [keys EXCEPT ![w] = NoKeys]
    /\ err' = [err EXCEPT ![w] = "None"]
    /\ UNCHANGED <<nextJob, msgs, outcome, page, dbVars, storeVars, crawlerVars>>

(* -------------------- calls of the block upserts ------------------------ *)
\* the sources the upserts are called for
DbSources == {"s1", "s2"}

\* parsed items, as upsert_block_from_parsed_item reads them
ParsedItems ==
    {[item_id |-> "a", og_title |-> "t1", og_description |-> "d1",
      media_type |-> "image", page_url |-> "/i/a", source_original_url |-> "m1.png",
      sidebar_info |-> [tags |-> <<"art", " art">>, aiTags |-> <<" ", "ai">>]],
     [item_id |-> "a", og_title |-> "t2", og_description |-> "None",
      media_type |-> "video", page_url |-> "/i/a/", source_original_url |-> "m2.mp4",
      sidebar_info |-> NoSidebar]}

\* the media_keys dicts of a call; a missing entry is NoKey
MediaKeysInputs(parsed_item) ==
    {[video |-> NoKey, image |-> NoKey, poster |-> NoKey],
     [video |-> NoKey, poster |-> NoKey,
      image |-> MediaKey(parsed_item.item_id, "original", "m1.png")],
     [video |-> MediaKey(parsed_item.item_id, "video", "m2.mp4"), image |-> NoKey,
      poster |-> MediaKey(parsed_item.item_id, "original", "poster")]}

Database == [blocks |-> blocks, nextId |-> nextId, overrides |-> overrides]

\* BlocksRepository.upsert_block_from_parsed_item
UpsertBlockFromParsedItem(parsed_item, source_id, media_keys) ==
    /\ \E tags_raw \in Orderings(CleanTags(parsed_item.sidebar_info.tags
                                           \o parsed_item.sidebar_info.aiTags)) :
       LET data == RepoUpsertData(source_id, parsed_item, media_keys, tags_raw)
           db == UpsertStatement(Database, data)
       IN IF data.media_key = NoKey
          THEN /\ lastOp' = CallRecord("upsert_block_from_parsed_item", FALSE, data,
                                       blocks, overrides)
               /\ UNCHANGED <<blocks, nextId, overrides>>
          ELSE /\ blocks' = db.blocks
               /\ nextId' = db.nextId
               /\ overrides' = db.overrides
               /\ lastOp' = CallRecord("upsert_block_from_parsed_item", TRUE, data,
                                       blocks, overrides)
    /\ UNCHANGED <<pipeVars, storeVars, crawlerVars>>

\* the items a CLI run scrapes
ScrapedItems == {ScrapeItem(pg, u) : pg \in {ImagePage, VideoPage}, u \in ItemUrls}

\* cli._process_source: the keys the uploads of an item return
CliUploads(it) ==
    IF it.media_type = "image"
    THEN {[media_key |-> MediaKey(it.external_id, "original", it.media_url),
           video_poster_key |-> NoKey]}
    ELSE {[media_key |-> MediaKey(it.external_id, "video", it.media_url),
           video_poster_key |-> poster] :
              poster \in {NoKey} \cup (IF it.thumbnail
                                       THEN {MediaKey(it.external_id, "original", "poster")}
                                       ELSE {})}

\* cli._upsert_block, and the commit that follows it in cli._process_source
CliUpsertBlock(source_id, it, media_key, video_poster_key) ==
    /\ LET data == CliUpsertData(source_id, it, media_key, video_poster_key)
           db == UpsertStatement(Database, data)
       IN /\ blocks' = db.blocks
          /\ nextId' = db.nextId
          /\ overrides' = db.overrides
          /\ lastOp' = CallRecord("_upsert_block", TRUE, data, blocks, overrides)
    /\ UNCHANGED <<pipeVars, storeVars, crawlerVars>>

(* --------------------- BlockOverridesRepository ------------------------- *)
\* BlockOverride(block_id=..., title_override=..., ...): the other columns
\* take their defaults
NewOverride(block_id, title_override) ==
    [block_id |-> block_id, title_override |-> title_override,
     description_override |-> Null, tags_override |-> Null,
     status |-> "draft", locked |-> FALSE, priority |-> 0]

\* create_override; the row is refused without its block (foreign key) and
\* with an override of the block in place (primary key)
CreateOverride(block_id, title_override) ==
    /\ \E r \in blocks : r.id = block_id
    /\ \A o \in overrides : o.block_id # block_id
    /\ overrides' = overrides \cup {NewOverride(block_id, title_override)}
    /\ UNCHANGED <<blocks, nextId, lastOp, pipeVars, storeVars, crawlerVars>>

\* the **updates of the update_override calls
OverrideUpdates ==
    <<[key |-> "locked", value |-> TRUE], [key |-> "status", value |-> "published"]>>

\* update_override: setattr(override, key, value) for the keys it has
UpdateOverride(block_id, key, value) ==
    /\ \E o \in overrides : o.block_id = block_id
    /\ overrides' = {IF o.block_id = block_id /\ key \in DOMAIN o
                     THEN [o EXCEPT ![key] = value] ELSE o : o \in overrides}
    /\ UNCHANGED <<blocks, nextId, lastOp, pipeVars, storeVars, crawlerVars>>

\* delete_override
DeleteOverride(block_id) ==
    /\ \E o \in overrides : o.block_id = block_id
    /\ overrides' = {o \in overrides : o.block_id # block_id}
    /\ UNCHANGED <<blocks, nextId, lastOp, pipeVars, storeVars, crawlerVars>>

(* ------------------------------ R2Storage ------------------------------ *)
\* the contents a download may return
Bytes == {"b1", "b2"}

\* hashlib.sha256(data).hexdigest(), as <<its first 16 characters, the rest>>
Sha256Hex(data) ==
    CASE data = "b1" -> <<"h1", "r1">>
      [] data = "b2" -> <<"h2", "r2">>

\* hexdigest()[:16]
ContentHash(data) == Sha256Hex(data)[1]

\* source URLs, as <<the path up to its suffix, the suffix>>
ImageUrls == {<<"/m/1", ".PNG">>, <<"/m/2", "">>}

\* path.lower()
Lower(suffix) ==
    CASE suffix = ".PNG" -> ".png"
      [] suffix = ".JPEG" -> ".jpeg"
      [] suffix = ".MP4" -> ".mp4"
      [] OTHER -> suffix

\* R2Storage._get_file_extension
GetFileExtension(url) ==
    LET path == Lower(url[2])
    IN CASE path \in {".jpg", ".jpeg"} -> ".jpg"
         [] path = ".png" -> ".png"
         [] path = ".gif" -> ".gif"
         [] path = ".webp" -> ".webp"
         [] path = ".mp4" -> ".mp4"
         [] path = ".webm" -> ".webm"
         [] OTHER -> ".jpg"

BaseKeys == {"blocks/a", "blocks/b"}

\* f"{base_key}/{variant}_{content_hash}{ext}"
ObjectKey(base_key, variant, content_hash, ext) == <<base_key, variant, content_hash, ext>>

\* the size names of _generate_thumbnails
ThumbnailSizes == <<"thumb", "small", "medium", "large">>

\* an existence check that never finds the object
NeverExists(bkt, key) == FALSE

\* R2Storage.object_exists: head_object answers for the key
ObjectExists(bkt, key) == key \in bkt

\* the state of the bucket a call works on
Store == [bucket |-> bucket, puts |-> puts]

\* put_object: one more put for the key
PutObject(st, key) ==
    [bucket |-> st.bucket \cup {key},
     puts |-> [k \in DOMAIN st.puts \cup {key} |->
                  IF k = key
                  THEN (IF k \in DOMAIN st.puts THEN st.puts[k] ELSE 0) + 1
                  ELSE st.puts[k]]]

\* R2Storage.upload_file: the key is returned without a put when the object
\* exists
UploadFile(st, key) ==
    IF ObjectExists(st.bucket, key) THEN st ELSE PutObject(st, key)

\* R2Storage._generate_thumbnails, stopped by an exception after n sizes
RECURSIVE GenerateThumbnails(_, _, _, _)
GenerateThumbnails(st, base_key, content_hash, n) ==
    IF n = 0
    THEN st
    ELSE UploadFile(GenerateThumbnails(st, base_key, content_hash, n - 1),
                    ObjectKey(base_key, ThumbnailSizes[n], content_hash, ".jpg"))

\* an upload_image that writes the thumbnails before the primary object
ThumbnailsFirst(st, base_key, content_hash) ==
    GenerateThumbnails(st, base_key, content_hash, Len(ThumbnailSizes))

\* upload_file raises inside upload_image: the exception leaves upload_image
\* before _generate_thumbnails is called
PrimaryRaised(st, base_key, content_hash) == st

\* a _generate_thumbnails that lets its exception through
Reraised(n) == IF n < Len(ThumbnailSizes) THEN "raised" ELSE "returned"

\* except Exception in _generate_thumbnails: logged and not raised
Swallowed(n) == "returned"

\* an exception in _generate_thumbnails after n of the sizes
ThumbnailFault(n) == IF n < Len(ThumbnailSizes) THEN "thumbnail" ELSE "none"

\* R2Storage.upload_image
UploadImage(image_url, base_key) ==
    /\ Len(calls) < MaxCalls
    /\ \/ \* download_url raises
          /\ calls' = Append(calls, [image_url |-> image_url, base_key |-> base_key,
                                     data |-> "None", result |-> "raised",
                                     key |-> NoKey, put |-> FALSE,
                                     op |-> "upload_image", fault |-> "download"])
          /\ UNCHANGED <<bucket, puts>>
       \/ \E data \in Bytes :
             LET content_hash == ContentHash(data)
                 ext == GetFileExtension(image_url)
                 original_key == ObjectKey(base_key, "original", content_hash, ext)
                 uploaded == UploadFile(Store, original_key)
             IN \/ \* head_object or put_object raises
                   /\ calls' = Append(calls, [image_url |-> image_url,
                                               base_key |-> base_key, data |-> data,
                                               result |-> "raised", key |-> NoKey,
                                               put |-> FALSE, op |-> "upload_image",
                                               fault |-> "storage"])
                   /\ bucket' = PrimaryRaised(Store, base_key, content_hash).bucket
                   /\ puts' = PrimaryRaised(Store, base_key, content_hash).puts
                \/ \E n \in 0..Len(ThumbnailSizes) :
                      LET done == GenerateThumbnails(uploaded, base_key, content_hash, n)
                      IN /\ bucket' = done.bucket
                         /\ puts' = done.puts
                         /\ calls' = Append(calls, [image_url |-> image_url,
                                                    base_key |-> base_key, data |-> data,
                                                    result |-> Swallowed(n),
                                                    key |-> IF Swallowed(n) = "returned"
                                                            THEN original_key
                                                            ELSE NoKey,
                                                    put |-> uploaded # Store,
                                                    op |-> "upload_image",
                                                    fault |-> ThumbnailFault(n)])
    /\ UNCHANGED <<pipeVars, dbVars, crawlerVars>>

\* the source URLs of videos
VideoUrls == {<<"/m/3", ".MP4">>, <<"/m/4", ".mov">>}

\* R2Storage.upload_video
UploadVideo(video_url, base_key) ==
    /\ Len(calls) < MaxCalls
    /\ \/ \* download_url raises
          /\ calls' = Append(calls, [image_url |-> video_url, base_key |-> base_key,
                                     data |-> "None", result |-> "raised",
                                     key |-> NoKey, put |-> FALSE,
                                     op |-> "upload_video", fault |-> "download"])
          /\ UNCHANGED <<bucket, puts>>
       \/ \E data \in Bytes :
             LET content_hash == ContentHash(data)
                 ext == GetFileExtension(video_url)
                 video_key == ObjectKey(base_key, "video", content_hash, ext)
                 uploaded == UploadFile(Store, video_key)
             IN \/ \* head_object or put_object raises
                   /\ calls' = Append(calls, [image_url |-> video_url,
                                               base_key |-> base_key, data |-> data,
                                               result |-> "raised", key |-> NoKey,
                                               put |-> FALSE, op |-> "upload_video",
                                               fault |-> "storage"])
                   /\ UNCHANGED <<bucket, puts>>
                \/ /\ bucket' = uploaded.bucket
                   /\ puts' = uploaded.puts
                   /\ calls' = Append(calls, [image_url |-> video_url,
                                              base_key |-> base_key, data |-> data,
                                              result |-> "returned", key |-> video_key,
                                              put |-> uploaded # Store,
                                              op |-> "upload_video", fault |-> "none"])
    /\ UNCHANGED <<pipeVars, dbVars, crawlerVars>>

(* ---------------- savee_scraper.py: listing discovery ------------------ *)
\* an item id is the sequence of its characters
IdAbcde == <<"a", "b", "c", "d", "e">>
IdZ09 == <<"Z", "_", "-", "0", "9">>
TokShort == <<"a", "b", "c", "d">>
TokUndefined == <<"u", "n", "d", "e", "f", "i", "n", "e", "d">>
TokBang == <<"a", "b", "c", "d", "e", "!", "9">>
TokLong == [i \in 1..25 |-> "a"]

\* the texts that stand where an item id is expected
Tokens == {IdAbcde, IdZ09, TokShort, TokUndefined, TokBang, TokLong}

\* the elements of a listing page: <div id="grid-item-TOKEN">,
\* <a href="/i/TOKEN/">, and a bare /i/TOKEN in the text of the page
ElementKinds == {"grid", "anchor", "text"}
Elements == [kind : ElementKinds, tok : Tokens]

\* re.fullmatch(r"[A-Za-z0-9_-]{5,24}", item_id)
FullMatch(item_id) ==
    /\ Len(item_id) >= 5
    /\ Len(item_id) <= 24
    /\ \A i \in DOMAIN item_id : item_id[i] \in ClassChars

\* a validity check that only matches the pattern
PatternOnly(item_id) == FullMatch(item_id)

\* is_valid_item_id
IsValidItemId(item_id) ==
    /\ item_id \notin {TokUndefined, <<"n", "u", "l", "l">>, <<"N", "o", "n", "e">>, <<>>}
    /\ FullMatch(item_id)

\* the group ([A-Za-z0-9_-]+) matched at the start of a text: its longest
\* run of class characters
RECURSIVE ClassRun(_)
ClassRun(text) ==
    IF text = <<>> \/ Head(text) \notin ClassChars
    THEN <<>>
    ELSE <<Head(text)>> \o ClassRun(Tail(text))

NoId == <<>>

\* extract_item_id_from_url, for a URL that reads .../i/TOKEN...
ExtractItemIdFromUrl(tok) ==
    LET item_id == ClassRun(tok)
    IN IF item_id = <<>> THEN NoId
       ELSE IF IsValidItemId(item_id) THEN item_id ELSE NoId

\* the elements of one kind, in DOM order
RECURSIVE OfKinds(_, _)
OfKinds(dom, kinds) ==
    IF dom = <<>> THEN <<>>
    ELSE (IF Head(dom).kind \in kinds THEN <<Head(dom).tok>> ELSE <<>>)
             \o OfKinds(Tail(dom), kinds)

\* f(x) for the x of a sequence
RECURSIVE MapExtract(_)
MapExtract(toks) ==
    IF toks = <<>> THEN <<>>
    ELSE <<ExtractItemIdFromUrl(Head(toks))>> \o MapExtract(Tail(toks))

RECURSIVE MapClassRun(_)
MapClassRun(toks) ==
    IF toks = <<>> THEN <<>>
    ELSE <<ClassRun(Head(toks))>> \o MapClassRun(Tail(toks))

\* 1) _parse_ids_from_data_attribute(html) or []
StageIds(dom, attrs) ==
    IF attrs THEN SelectSeq(OfKinds(dom, {"grid"}), IsValidItemId) ELSE <<>>

\* 2) the ids of _parse_links_from_data_attribute(html) or []
StageAnchors(dom, attrs) ==
    IF attrs THEN MapExtract(OfKinds(dom, {"anchor"})) ELSE <<>>

\* 3) id="grid-item-([A-Za-z0-9_-]+)" followed by the closing quote
StageGridIds(dom) ==
    LET WholeRun(tok) == tok # <<>> /\ ClassRun(tok) = tok
    IN SelectSeq(OfKinds(dom, {"grid"}), WholeRun)

\* 4) href="(/i/[A-Za-z0-9_-]+[^"]*)"
StageHrefs(dom) == MapExtract(OfKinds(dom, {"anchor"}))

\* 5) /i/([A-Za-z0-9_-]+) anywhere in the text
StageRaw(dom) == MapClassRun(OfKinds(dom, {"anchor", "text"}))

\* one for loop of find_item_links_in_html: the candidates that are valid and
\* not in seen_ids are appended to ordered_ids
RECURSIVE Collect(_, _)
Collect(ordered_ids, candidates) ==
    IF candidates = <<>> THEN ordered_ids
    ELSE LET item_id == Head(candidates)
         IN Collect(IF item_id # NoId /\ IsValidItemId(item_id)
                       /\ \A i \in DOMAIN ordered_ids : ordered_ids[i] # item_id
                    THEN Append(ordered_ids, item_id)
                    ELSE ordered_ids,
                    Tail(candidates))

\* find_item_links_in_html: the ids of the links, in the order returned
FindItemLinksInHtml(dom, attrs) ==
    Collect(Collect(Collect(Collect(Collect(<<>>,
        StageIds(dom, attrs)), StageAnchors(dom, attrs)),
        StageGridIds(dom)), StageHrefs(dom)), StageRaw(dom))

\* one call of find_item_links_in_html
Discover ==
    /\ ~discovered
    /\ links' = FindItemLinksInHtml(listing, collected)
    /\ discovered' = TRUE
    /\ UNCHANGED <<listing, collected, ingestVars, crawlVars>>

(* ------------------ savee_scraper.py: the crawl cycle ------------------- *)
DigitChars == <<"1", "2", "3", "4", "5", "6", "7", "8", "9">>

\* the n-th item the site published
ItemId(n) == <<"i", "t", "e", "m", DigitChars[n]>>

\* every listing shows the newest item first; each item is a grid element
\* that holds its link
RECURSIVE ListingOf(_)
ListingOf(n) ==
    IF n = 0 THEN <<>>
    ELSE <<[kind |-> "grid", tok |-> ItemId(n)],
           [kind |-> "anchor", tok |-> ItemId(n)]>> \o ListingOf(n - 1)

\* a load that finds nothing
LoadNothing(file) == {}

\* load_seen_ids: set(json.loads(...)), the empty set when there is no file
load_seen_ids(file) == file

\* save_seen_ids: the sorted list is written to seen.tmp, which then replaces
\* seen.json in one rename
save_seen_ids(j, ids) ==
    /\ seenFile' = [seenFile EXCEPT ![DirOf(j)] = ids]
    /\ everSaved' = [everSaved EXCEPT ![DirOf(j)] = @ \cup ids]

\* a loop without the break
NoCap(processed_count, max_items_per_cycle) == FALSE

\* if processed_count >= max_items_per_cycle: break
CapReached(processed_count, max_items_per_cycle) ==
    processed_count >= max_items_per_cycle

\* the loop of run_cycle is over
LoopOver(j) ==
    \/ cidx[j] > Len(clinks[j])
    \/ CapReached(ccount[j], cfg.max_items_per_cycle)

CurrentId(j) == ExtractItemIdFromUrl(clinks[j][cidx[j]])

\* the locals of a cycle that is not running
Forget(js) ==
    /\ cpc' = [j \in CrawlJobs |-> IF j \in js THEN "idle" ELSE cpc[j]]
    /\ cseen' = [j \in CrawlJobs |-> IF j \in js THEN {} ELSE cseen[j]]
    /\ clinks' = [j \in CrawlJobs |-> IF j \in js THEN <<>> ELSE clinks[j]]
    /\ cidx' = [j \in CrawlJobs |-> IF j \in js THEN 0 ELSE cidx[j]]
    /\ ccount' = [j \in CrawlJobs |-> IF j \in js THEN 0 ELSE ccount[j]]
    /\ cstart' = [j \in CrawlJobs |-> IF j \in js THEN {} ELSE cstart[j]]

\* run_cycle up to its for loop: the listing is fetched, the links are
\* found, seen.json is loaded and, with skip_existing, the item directories
\* on disk are added to seen
StartCycle(j) ==
    /\ cpc[j] = "idle"
    /\ j \notin ran
    /\ ran' = ran \cup {j}
    /\ LET found == FindItemLinksInHtml(ListingOf(feed), TRUE)
           ordered == IF cfg.oldest_first THEN Reverse(found) ELSE found
           on_disk == IF cfg.skip_existing
                      THEN {d \in itemDirs[DirOf(j)] : IsValidItemId(d)}
                      ELSE {}
           seen == load_seen_ids(seenFile[DirOf(j)]) \cup on_disk
       IN /\ found # <<>>
          /\ cpc' = [cpc EXCEPT ![j] = "loop"]
          /\ clinks' = [clinks EXCEPT ![j] = ordered]
          /\ cidx' = [cidx EXCEPT ![j] = 1]
          /\ ccount' = [ccount EXCEPT ![j] = 0]
          /\ cseen' = [cseen EXCEPT ![j] = seen]
          /\ cstart' = [cstart EXCEPT ![j] = seen]
    /\ UNCHANGED <<cfg, feed, diskVars, traceVars, discoverVars, ingestVars>>

\* if not item_id or item_id in seen: continue
SkipSeen(j) ==
    /\ cpc[j] = "loop"
    /\ ~LoopOver(j)
    /\ CurrentId(j) = NoId \/ CurrentId(j) \in cseen[j]
    /\ cidx' = [cidx EXCEPT ![j] = @ + 1]
    /\ UNCHANGED <<cfg, ran, feed, diskVars, traceVars, cpc, cseen, clinks, ccount,
                   cstart, discoverVars, ingestVars>>

\* process_item returns None: the item page could not be fetched
ItemNotFetched(j) ==
    /\ cpc[j] = "loop"
    /\ ~LoopOver(j)
    /\ CurrentId(j) # NoId /\ CurrentId(j) \notin cseen[j]
    /\ cidx' = [cidx EXCEPT ![j] = @ + 1]
    /\ UNCHANGED <<cfg, ran, feed, diskVars, traceVars, cpc, cseen, clinks, ccount,
                   cstart, discoverVars, ingestVars>>

\* process_item up to ensure_dir(item_dir)
BeginItem(j) ==
    /\ cpc[j] = "loop"
    /\ ~LoopOver(j)
    /\ CurrentId(j) # NoId /\ CurrentId(j) \notin cseen[j]
    /\ itemDirs' = [itemDirs EXCEPT ![DirOf(j)] = @ \cup {CurrentId(j)}]
    /\ touched' = [touched EXCEPT ![j] = @ \cup {CurrentId(j)}]
    /\ cpc' = [cpc EXCEPT ![j] = "item"]
    /\ UNCHANGED <<cfg, ran, feed, seenFile, metas, completed, again, everSaved, crashed,
                   cseen, clinks, cidx, ccount, cstart, discoverVars, ingestVars>>

\* process_item from ensure_dir to its return: sidebar.json, the downloads,
\* meta.json
CompleteItem(j) ==
    /\ cpc[j] = "item"
    /\ metas' = [metas EXCEPT ![DirOf(j)] = @ \cup {CurrentId(j)}]
    /\ again' = [again EXCEPT ![j] =
                    IF CurrentId(j) \in completed[j] THEN @ \cup {CurrentId(j)} ELSE @]
    /\ completed' = [completed EXCEPT ![j] = @ \cup {CurrentId(j)}]
    /\ cpc' = [cpc EXCEPT ![j] = "record"]
    /\ UNCHANGED <<cfg, ran, feed, seenFile, itemDirs, touched, everSaved, crashed,
                   cseen, clinks, cidx, ccount, cstart, discoverVars, ingestVars>>

\* a write of process_item raises (sidebar.json and meta.json are written
\* outside any try): the exception leaves run_cycle before its last save
AbortItem(j) ==
    /\ cpc[j] = "item"
    /\ Forget({j})
    /\ UNCHANGED <<cfg, ran, feed, diskVars, traceVars, discoverVars, ingestVars>>

\* seen.add(processed); processed_count += 1; every fifth item is flushed
RecordProcessed(j) ==
    /\ cpc[j] = "record"
    /\ cseen' = [cseen EXCEPT ![j] = @ \cup {CurrentId(j)}]
    /\ ccount' = [ccount EXCEPT ![j] = @ + 1]
    /\ IF (ccount[j] + 1) % FlushEvery = 0
       THEN save_seen_ids(j, cseen[j] \cup {CurrentId(j)})
       ELSE UNCHANGED <<seenFile, everSaved>>
    /\ cidx' = [cidx EXCEPT ![j] = @ + 1]
    /\ cpc' = [cpc EXCEPT ![j] = "loop"]
    /\ UNCHANGED <<cfg, ran, feed, itemDirs, metas, touched, completed, again, crashed,
                   clinks, cstart, discoverVars, ingestVars>>

\* the save after the loop
FinishCycle(j) ==
    /\ cpc[j] = "loop"
    /\ LoopOver(j)
    /\ save_seen_ids(j, cseen[j])
    /\ Forget({j})
    /\ UNCHANGED <<cfg, ran, feed, itemDirs, metas, touched, completed, again, crashed,
                   discoverVars, ingestVars>>

\* the process is killed and started again: only the disk is kept
Crash ==
    /\ \E j \in CrawlJobs : cpc[j] # "idle"
    /\ Forget(CrawlJobs)
    /\ crashed' = TRUE
    /\ ran' = {}
    /\ UNCHANGED <<cfg, feed, diskVars, touched, completed, again, everSaved,
                   discoverVars, ingestVars>>

\* main(): asyncio.gather has returned for every job of the round; after the
\* sleep the next round starts
EndRound ==
    /\ ran # {}
    /\ \A j \in CrawlJobs : cpc[j] = "idle"
    /\ ran' = {}
    /\ UNCHANGED <<cfg, feed, diskVars, cycleVars, traceVars, discoverVars,
                   ingestVars>>

\* EndRound, with the rounds counted
EndCountedRound ==
    /\ ran # {}
    /\ \A j \in CrawlJobs : cpc[j] = "idle"
    /\ ran' = {}
    /\ rounds' = Min(rounds + 1, MaxRounds)
    /\ UNCHANGED <<cfg, feed, diskVars, cycleVars, traceVars, discoverVars,
                   pipeVars, obsVars, dbVars, storeVars, sweepVars, runVars,
                   appVars>>

\* the site publishes one more item
Publish(max_ids) ==
    /\ feed < max_ids
    /\ feed' = feed + 1
    /\ UNCHANGED <<cfg, ran, diskVars, cycleVars, traceVars, discoverVars, ingestVars>>

PublishItem == Publish(MaxCrawlIds)
PublishCycleItem == Publish(MaxCycleIds)

(* ------------- SweepConsumer and SaveeScraper.scrape_listing ----------- *)
\* the item links a listing can show
SweepLinks == {"/i/a", "/i/b", "/i/c"}

\* the for loop of scrape_listing over item_links[:max_items]: a link in
\* seen_items is skipped, any other is scraped, returned and remembered
RECURSIVE ScrapeLoop(_, _, _)
ScrapeLoop(item_links, seen, found) ==
    IF item_links = <<>> THEN [items |-> found, seen_items |-> seen]
    ELSE IF Head(item_links) \in seen
         THEN ScrapeLoop(Tail(item_links), seen, found)
         ELSE ScrapeLoop(Tail(item_links), seen \cup {Head(item_links)},
                         Append(found, Head(item_links)))

\* item_links[:max_items]
FirstLinks(item_links, max_items) ==
    SubSeq(item_links, 1, Min(Len(item_links), max_items))

\* scrape_listing(url, max_items), every page loading and every item scraped
scrape_listing(item_links, max_items) ==
    ScrapeLoop(FirstLinks(item_links, max_items), seen_items, <<>>)

\* process_message up to items = await self.scraper.scrape_listing(...)
SweepScrape ==
    /\ spc = "idle"
    /\ LET result == scrape_listing(sweepPage, sweepMax)
       IN /\ items' = result.items
          /\ seen_items' = result.seen_items
    /\ spc' = "scraped"
    /\ UNCHANGED <<sweepPage, sweepMax, enqueued, notSweepVars>>

\* process_message from producer.queue_batch_items(item_urls, source_id) on
SweepQueue ==
    /\ spc = "scraped"
    /\ enqueued' = enqueued \cup {items[i] : i \in DOMAIN items}
    /\ items' = <<>>
    /\ spc' = "idle"
    /\ UNCHANGED <<sweepPage, sweepMax, seen_items, notSweepVars>>

(* ------------------------- the rows of public.runs --------------------- *)
\* Run(source_id, kind, status='running'): finished_at and error are unset
NewRun(kind) ==
    [kind |-> kind, status |-> "running", finished_at |-> FALSE, error |-> ""]

\* run.status = ...; run.finished_at = now; run.error = str(e), committed
EndRun(status, error) ==
    runs' = [runs EXCEPT ![job.run] =
                [@ EXCEPT !.status = status, !.finished_at = TRUE, !.error = error]]

\* the media types _scrape_item can give an item
RunItemKinds == {"image", "video", "text"}

\* the item lists scrape_listing can return
RunItemLists ==
    UNION {[1..n -> RunItemKinds] : n \in 0..MaxRunItems}

\* the handler has ended with the given outcome
Ended(how) == [job EXCEPT !.pc = "ended", !.outcome = how]

\* SweepConsumer.process_message and _process_source up to the commit of
\* the new Run row
CreateRun(mode) ==
    /\ job.pc \in {"idle", "ended"}
    /\ Len(runs) < MaxRuns
    /\ runs' = Append(runs, NewRun(IF mode = "cli" THEN "manual" ELSE "tail"))
    /\ job' = [NoRunJob EXCEPT !.mode = mode, !.pc = "created", !.run = Len(runs) + 1]
    /\ UNCHANGED <<txn, stored, injected, notRunVars>>

\* scrape_listing caught the error of the listing page and returned []
ListingSwallowed == <<>>

\* scrape_listing: an error while the listing page is loaded is caught
\* inside and the empty list is returned; otherwise the scraped items are
ListingScraped ==
    /\ job.pc = "created"
    /\ \/ job' = [job EXCEPT !.pc = "scraped", !.loaded = FALSE,
                              !.todo = ListingSwallowed]
       \/ \E found \in RunItemLists :
              job' = [job EXCEPT !.pc = "scraped", !.loaded = TRUE, !.todo = found,
                                 !.counters.items_found = Len(found)]
    /\ UNCHANGED <<runs, txn, stored, injected, notRunVars>>

\* the sweep job after scrape_listing: queue_batch_items, then completed;
\* an exception of the producer marks the run failed and is raised again
SweepRunEnds ==
    /\ job.mode = "sweep"
    /\ job.pc = "scraped"
    /\ \/ /\ EndRun("completed", "")
          /\ job' = Ended("returned")
       \/ /\ EndRun("failed", "AMQPError")
          /\ job' = Ended("raised")
    /\ UNCHANGED <<txn, stored, injected, notRunVars>>

\* the id of the item the CLI run is at
RunItemId == <<job.run, job.at + 1>>

\* a counter that is raised by two
BumpTwice(counters, field) == [counters EXCEPT ![field] = @ + 2]

\* counters[field] += 1
Bump(counters, field) == [counters EXCEPT ![field] = @ + 1]

\* one turn of the for loop of _process_source
CliItem ==
    /\ job.mode = "cli"
    /\ job.pc = "scraped"
    /\ job.at < Len(job.todo)
    /\ LET media_type == job.todo[job.at + 1]
           next == [job EXCEPT !.at = @ + 1]
           uploaded == [next EXCEPT !.counters = Bump(@, "items_uploaded")]
       IN \/ \* an unsupported media type: continue
             /\ media_type = "text"
             /\ job' = next
             /\ UNCHANGED <<txn, stored, injected>>
          \/ \* upload_image or upload_video raises
             /\ media_type # "text"
             /\ job' = [next EXCEPT !.counters = Bump(@, "errors")]
             /\ injected' = injected \cup {RunItemId}
             /\ UNCHANGED <<txn, stored>>
          \/ \* the statement of _upsert_block fails: nothing rolls the
             \* transaction of the session back
             /\ media_type # "text"
             /\ txn = "ok"
             /\ job' = [uploaded EXCEPT !.counters = Bump(@, "errors")]
             /\ injected' = injected \cup {RunItemId}
             /\ txn' = "aborted"
             /\ UNCHANGED stored
          \/ \* in an aborted transaction every statement is refused
             /\ media_type # "text"
             /\ txn = "aborted"
             /\ job' = [uploaded EXCEPT !.counters = Bump(@, "errors")]
             /\ UNCHANGED <<txn, stored, injected>>
          \/ \* upload, upsert and commit succeed
             /\ media_type # "text"
             /\ txn = "ok"
             /\ job' = [uploaded EXCEPT !.counters = Bump(@, "items_upserted")]
             /\ stored' = stored \cup {RunItemId}
             /\ UNCHANGED <<txn, injected>>
    /\ UNCHANGED <<runs, notRunVars>>

\* _process_source after the loop: the run is committed as success; when
\* that commit fails in an aborted transaction the except clause tries to
\* commit the run as error, which the session accepts or refuses
CliRunEnds ==
    /\ job.mode = "cli"
    /\ job.pc = "scraped"
    /\ job.at = Len(job.todo)
    /\ \/ /\ txn = "ok"
          /\ EndRun("success", "")
          /\ job' = Ended("returned")
          /\ UNCHANGED txn
       \/ /\ txn = "aborted"
          /\ EndRun("error", "InFailedSQLTransactionError")
          /\ job' = Ended("returned")
          /\ txn' = "ok"
       \/ /\ txn = "aborted"
          /\ job' = Ended("raised")
          /\ UNCHANGED <<runs, txn>>
    /\ UNCHANGED <<stored, injected, notRunVars>>

\* the task is cancelled at an await (WorkerApplication.stop, Ctrl-C of the
\* CLI): CancelledError is no Exception, no except clause sees it
CancelRun ==
    /\ job.pc \in {"created", "scraped"}
    /\ job' = Ended("cancelled")
    /\ UNCHANGED <<runs, txn, stored, injected, notRunVars>>

(* ---------------------------- observers -------------------------------- *)
\* fails counts, per job, the deliveries whose processing raised
CountFails ==
    /\ fails' = [j \in JobIds |->
                 IF \E w \in Workers :
                        cur[w] = j /\ outcome[w] # "raised" /\ outcome'[w] = "raised"
                 THEN Min(fails[j] + 1, MaxFails)
                 ELSE fails[j]]
    /\ UNCHANGED slept

(* ------------------------- the item pipeline --------------------------- *)
Next ==
    \/ \E u \in ItemUrls, s \in Sources : QueueItemJob(u, s) /\ UNCHANGED obsVars
    \/ \E j \in JobIds : ExpireMessage(j) /\ UNCHANGED obsVars
    \/ \E e \in ExternalIds : SiteChange(e) /\ UNCHANGED obsVars
    \/ \E w \in Workers, j \in JobIds : Deliver(w, j) /\ UNCHANGED obsVars
    \/ \E w \in Workers : Scrape(w) /\ UNCHANGED obsVars
    \/ \E w \in Workers : CheckExisting(w) /\ UNCHANGED obsVars
    \/ \E w \in Workers : Upload(w) /\ UNCHANGED obsVars
    \/ \E w \in Workers : Insert(w) /\ UNCHANGED obsVars
    \/ \E w \in Workers : Ack(w) /\ UNCHANGED obsVars
    \/ \E w \in Workers : AckLost(w) /\ UNCHANGED obsVars
    \/ \E w \in Workers : HandleMessageError(w) /\ UNCHANGED obsVars

Spec == Init /\ [][Next]_vars

(* ------------------ jobs that fail on every delivery ------------------- *)
\* the item pages show no media, and stay so: every scrape returns None
InitRetry ==
    /\ InitPipeline
    /\ InitCrawler
    /\ page = [e \in ExternalIds |-> BarePage]

NextRetry ==
    \/ \E u \in ItemUrls, s \in Sources : QueueItemJob(u, s) /\ CountFails
    \/ \E j \in JobIds : ExpireMessage(j) /\ CountFails
    \/ \E w \in Workers, j \in JobIds : Deliver(w, j) /\ CountFails
    \/ \E w \in Workers : Scrape(w) /\ CountFails
    \/ \E w \in Workers : HandleMessageError(w) /\ CountFails

SpecRetry == InitRetry /\ [][NextRetry]_vars

(* ----------------------- sweep jobs and item jobs ---------------------- *)
NextPublish ==
    \/ \E s \in Sources, t \in SweepTypes : QueueSweepJob(s, t) /\ UNCHANGED obsVars
    \/ Next

SpecPublish == Init /\ [][NextPublish]_vars

\* a worker that holds a delivery goes on, and an idle worker takes a waiting
\* message
FairSpecRetry ==
    /\ SpecRetry
    /\ \A w \in Workers :
          /\ WF_vars(\E j \in JobIds : Deliver(w, j) /\ CountFails)
          /\ WF_vars(Scrape(w) /\ CountFails)
          /\ WF_vars(HandleMessageError(w) /\ CountFails)


(* ------------------------- the block upserts --------------------------- *)
UpsertCalls(sources) ==
    \/ \E p \in ParsedItems, s \in sources :
           \E mk \in MediaKeysInputs(p) :
               UpsertBlockFromParsedItem(p, s, mk) /\ UNCHANGED obsVars
    \/ \E it \in ScrapedItems, s \in sources :
           \E k \in CliUploads(it) :
               CliUpsertBlock(s, it, k.media_key, k.video_poster_key) /\ UNCHANGED obsVars

NextUpsert == UpsertCalls(DbSources)

SpecUpsert == Init /\ [][NextUpsert]_vars

(* ------------ ingestion next to the editorial repository --------------- *)
\* the item pages show an image or a video
InitDb ==
    /\ InitPipeline
    /\ InitCrawler
    /\ page \in [ExternalIds -> {ImagePage, VideoPage}]

NextDb ==
    \/ UpsertCalls(Sources)
    \/ \E b \in 1..nextId, t \in {Null, Some("T")} :
           CreateOverride(b, t) /\ UNCHANGED obsVars
    \/ \E b \in 1..nextId, i \in DOMAIN OverrideUpdates :
           UpdateOverride(b, OverrideUpdates[i].key, OverrideUpdates[i].value)
           /\ UNCHANGED obsVars
    \/ \E b \in 1..nextId : DeleteOverride(b) /\ UNCHANGED obsVars
    \/ \E u \in ItemUrls, s \in Sources :
           nextJob < DbJobs /\ QueueItemJob(u, s) /\ UNCHANGED obsVars
    \/ \E w \in Workers, j \in JobIds : Deliver(w, j) /\ UNCHANGED obsVars
    \/ \E w \in Workers : Scrape(w) /\ UNCHANGED obsVars
    \/ \E w \in Workers : CheckExisting(w) /\ UNCHANGED obsVars
    \/ \E w \in Workers : Upload(w) /\ UNCHANGED obsVars
    \/ \E w \in Workers : Insert(w) /\ UNCHANGED obsVars
    \/ \E w \in Workers : Ack(w) /\ UNCHANGED obsVars
    \/ \E w \in Workers : HandleMessageError(w) /\ UNCHANGED obsVars

SpecDb == InitDb /\ [][NextDb]_vars

(* ------------- re-scrapes of blocks that have overrides ---------------- *)
NextRescrape ==
    \/ UpsertCalls(DbSources)
    \/ \E b \in 1..nextId, t \in {Null, Some("T")} :
           CreateOverride(b, t) /\ UNCHANGED obsVars

SpecRescrape == Init /\ [][NextRescrape]_vars

(* --------------------------- the media store -------------------------- *)
NextUpload ==
    \E image_url \in ImageUrls, base_key \in BaseKeys :
        UploadImage(image_url, base_key) /\ UNCHANGED obsVars

SpecUpload == Init /\ [][NextUpload]_vars

\* images and videos
NextMedia ==
    \/ \E image_url \in ImageUrls, base_key \in BaseKeys :
           UploadImage(image_url, base_key) /\ UNCHANGED obsVars
    \/ \E video_url \in VideoUrls, base_key \in BaseKeys :
           UploadVideo(video_url, base_key) /\ UNCHANGED obsVars

SpecMedia == Init /\ [][NextMedia]_vars

(* ------------------------- listing discovery -------------------------- *)
\* any listing of up to MaxElements elements, with or without the attributes
InitDiscover ==
    /\ InitPipeline
    /\ page = [e \in ExternalIds |-> ImagePage]
    /\ \E n \in 0..MaxElements : listing \in [1..n -> Elements]
    /\ collected \in BOOLEAN
    /\ links = <<>>
    /\ discovered = FALSE
    /\ cfg = NoJobs
    /\ feed = 0
    /\ InitCycles(<<>>)

NextDiscover == Discover

SpecDiscover == InitDiscover /\ [][NextDiscover]_vars

(* --------------------------- the crawl cycles -------------------------- *)
Job(url) == [url |-> url, name |-> NoName]

\* two jobs with different URLs crawl the site as it publishes its items
InitCrawl ==
    /\ InitPipeline
    /\ page = [e \in ExternalIds |-> ImagePage]
    /\ InitListing
    /\ \E url \in {UrlBobUi, UrlBobArt} :
       \E skip_existing \in BOOLEAN :
           cfg = [jobs |-> <<Job(UrlAliceUi), Job(url)>>,
                  skip_existing |-> skip_existing,
                  oldest_first |-> FALSE,
                  max_items_per_cycle |-> 50]
    /\ feed = 0
    /\ InitCycles(<<1, 2>>)

NextCrawl ==
    \/ \E j \in CrawlJobs :
           \/ StartCycle(j)
           \/ SkipSeen(j)
           \/ BeginItem(j)
           \/ CompleteItem(j)
           \/ AbortItem(j)
           \/ RecordProcessed(j)
           \/ FinishCycle(j)
    \/ EndRound
    \/ Crash
    \/ PublishItem

SpecCrawl == InitCrawl /\ [][NextCrawl]_vars

\* one job crawls the site as it publishes its items; pages may fail to
\* load, writes may fail and the process may be killed
InitCycle ==
    /\ InitPipeline
    /\ page = [e \in ExternalIds |-> ImagePage]
    /\ InitListing
    /\ \E skip_existing \in BOOLEAN :
       \E max_items_per_cycle \in 1..MaxCycleIds :
           cfg = [jobs |-> <<Job(UrlAliceUi)>>,
                  skip_existing |-> skip_existing,
                  oldest_first |-> FALSE,
                  max_items_per_cycle |-> max_items_per_cycle]
    /\ feed = 0
    /\ InitCycles(<<1>>)

NextCycle ==
    \/ \E j \in CrawlJobs :
           \/ StartCycle(j)
           \/ SkipSeen(j)
           \/ ItemNotFetched(j)
           \/ BeginItem(j)
           \/ CompleteItem(j)
           \/ AbortItem(j)
           \/ RecordProcessed(j)
           \/ FinishCycle(j)
    \/ EndRound
    \/ Crash
    \/ PublishCycleItem

SpecCycle == InitCycle /\ [][NextCycle]_vars

\* one job crawls a listing of FlushIds items, in either order; the process
\* may be killed
InitFlush ==
    /\ InitPipeline
    /\ page = [e \in ExternalIds |-> ImagePage]
    /\ InitListing
    /\ \E url \in {UrlAliceUi, UrlHome} :
       \E skip_existing \in BOOLEAN :
       \E oldest_first \in BOOLEAN :
           cfg = [jobs |-> <<Job(url)>>,
                  skip_existing |-> skip_existing,
                  oldest_first |-> oldest_first,
                  max_items_per_cycle |-> 50]
    /\ feed = FlushIds
    /\ InitCycles(<<1>>)

NextFlush ==
    \/ \E j \in CrawlJobs :
           \/ StartCycle(j)
           \/ SkipSeen(j)
           \/ BeginItem(j)
           \/ CompleteItem(j)
           \/ RecordProcessed(j)
           \/ FinishCycle(j)
    \/ EndRound
    \/ Crash

SpecFlush == InitFlush /\ [][NextFlush]_vars

(* ------------------------- a listing is drained ------------------------- *)
\* one job crawls a listing of n items that does not change; every page
\* loads and every write succeeds
InitDrain ==
    /\ InitPipeline
    /\ page = [e \in ExternalIds |-> ImagePage]
    /\ InitListing
    /\ \E skip_existing \in BOOLEAN :
       \E oldest_first \in BOOLEAN :
       \E max_items_per_cycle \in 1..MaxDrainIds :
           cfg = [jobs |-> <<Job(UrlAliceUi)>>,
                  skip_existing |-> skip_existing,
                  oldest_first |-> oldest_first,
                  max_items_per_cycle |-> max_items_per_cycle]
    /\ feed \in 1..MaxDrainIds
    /\ InitCycles(<<1>>)

NextDrain ==
    \/ \E j \in CrawlJobs :
           \/ StartCycle(j)
           \/ SkipSeen(j)
           \/ BeginItem(j)
           \/ CompleteItem(j)
           \/ RecordProcessed(j)
           \/ FinishCycle(j)
    \/ EndCountedRound

SpecDrain == InitDrain /\ [][NextDrain]_vars

\* the links of a listing of n items, newest first
NewestFirst(n) == [i \in 1..n |-> ItemId(n + 1 - i)]

\* the step StartCycle(j) takes, with the links of the listing written out
CycleBegins(j) ==
    /\ cpc[j] = "idle"
    /\ j \notin ran
    /\ feed > 0
    /\ ran' = ran \cup {j}
    /\ cpc' = [cpc EXCEPT ![j] = "loop"]
    /\ clinks' = [clinks EXCEPT ![j] = IF cfg.oldest_first
                                        THEN Reverse(NewestFirst(feed))
                                        ELSE NewestFirst(feed)]
    /\ cidx' = [cidx EXCEPT ![j] = 1]
    /\ ccount' = [ccount EXCEPT ![j] = 0]
    /\ cseen' = [cseen EXCEPT ![j] =
                    seenFile[DirOf(j)]
                        \cup (IF cfg.skip_existing THEN itemDirs[DirOf(j)] ELSE {})]
    /\ cstart' = cseen'
    /\ UNCHANGED <<cfg, feed, diskVars, traceVars, discoverVars, ingestVars>>

\* the steps of a cycle that has begun
CycleGoesOn ==
    \E j \in CrawlJobs :
        \/ SkipSeen(j)
        \/ BeginItem(j)
        \/ CompleteItem(j)
        \/ RecordProcessed(j)
        \/ FinishCycle(j)

\* main() runs its rounds for ever, and a cycle that runs goes on
FairSpecDrain ==
    /\ SpecDrain
    /\ WF_vars(\E j \in CrawlJobs : CycleBegins(j))
    /\ WF_vars(CycleGoesOn)
    /\ WF_vars(EndCountedRound)

(* ------------------------------ the sweeps ----------------------------- *)
\* a listing of up to MaxSweepLinks links, which does not change, is swept
\* again and again; the consumer passes max_items 50 (tail) or 100
\* (backfill), for which a small number stands here
InitSweep ==
    /\ InitPipeline
    /\ page = [e \in ExternalIds |-> ImagePage]
    /\ InitListing
    /\ cfg = NoJobs
    /\ feed = 0
    /\ InitJobs(<<>>)
    /\ \E n \in 1..MaxSweepLinks : sweepPage \in [1..n -> SweepLinks]
    /\ sweepMax \in 1..MaxSweepLinks
    /\ seen_items = {}
    /\ spc = "idle"
    /\ items = <<>>
    /\ enqueued = {}

NextSweep ==
    \/ SweepScrape
    \/ SweepQueue

SpecSweep == InitSweep /\ [][NextSweep]_vars

\* the scheduler sends sweep jobs for ever and the consumer handles each
FairSpecSweep == SpecSweep /\ WF_vars(SweepScrape) /\ WF_vars(SweepQueue)

(* ------------------------------- the runs ------------------------------ *)
NextRuns ==
    \/ \E mode \in {"sweep", "cli"} : CreateRun(mode)
    \/ ListingScraped
    \/ SweepRunEnds
    \/ CliItem
    \/ CliRunEnds
    \/ CancelRun

SpecRuns == Init /\ [][NextRuns]_vars

(* -------------------- upload_file, call next to call ------------------- *)
\* the keys the callers upload to
UploadKeys ==
    {ObjectKey("blocks/a", "original", ContentHash(data), ".png") : data \in Bytes}

\* upload_file up to the answer of object_exists: with the object in place the
\* call returns the key, otherwise it goes on to the put
CheckObject(c, key) ==
    /\ upc[c].pc = "idle"
    /\ upc' = [upc EXCEPT ![c] =
                  [pc |-> IF ObjectExists(bucket, key) THEN "returned" ELSE "put",
                   key |-> key]]
    /\ UNCHANGED <<bucket, puts, calls, pipeVars, obsVars, dbVars, discoverVars,
                   crawlVars, sweepVars, rounds, runVars, stopped, held, view,
                   semVars, scroll>>

\* await self.client.put_object(...), then return key
PutAfterCheck(c) ==
    /\ upc[c].pc = "put"
    /\ IF upc[c].key \in bucket THEN puts[upc[c].key] < MaxPuts ELSE TRUE
    /\ bucket' = PutObject(Store, upc[c].key).bucket
    /\ puts' = PutObject(Store, upc[c].key).puts
    /\ upc' = [upc EXCEPT ![c].pc = "returned"]
    /\ UNCHANGED <<calls, pipeVars, obsVars, dbVars, discoverVars, crawlVars,
                   sweepVars, rounds, runVars, stopped, held, view, semVars, scroll>>

\* the caller has its key and is free for the next call
UploadReturned(c) ==
    /\ upc[c].pc = "returned"
    /\ upc' = [upc EXCEPT ![c] = NoUpload]
    /\ UNCHANGED <<bucket, puts, calls, pipeVars, obsVars, dbVars, discoverVars,
                   crawlVars, sweepVars, rounds, runVars, stopped, held, view,
                   semVars, scroll>>

NextCallers ==
    \/ \E c \in Callers, key \in UploadKeys : CheckObject(c, key)
    \/ \E c \in Callers : PutAfterCheck(c)
    \/ \E c \in Callers : UploadReturned(c)

SpecCallers == Init /\ [][NextCallers]_vars

(* ------------------- the scroll loops of a listing --------------------- *)
\* the values of SCROLL_STEPS and SCROLL_IDLE_ROUNDS
ScrollSteps == -1..(MaxScrollRounds - 1)
IdleRounds == 0..MaxIdleRounds

\* the change of the number of grid items since the round before
Deltas == {-1, 0, 1}

\* everything but the scroll loop
notScrollVars ==
    <<bucket, puts, calls, pipeVars, obsVars, dbVars, discoverVars, crawlVars,
      sweepVars, rounds, runVars, stopped, held, view, semVars, upc>>

\* fetch_listing_html: the script is injected when scroll_steps > 0 or
\* until_idle; build_scrolling_js clamps its arguments
FetchListingHtml(scroll_steps, until_idle, idle_rounds) ==
    /\ scroll.pc = "idle"
    /\ scroll' = [pc |-> IF scroll_steps > 0 \/ until_idle THEN "step" ELSE "done",
                  loop |-> "js",
                  maxLoops |-> Max(0, scroll_steps),
                  untilIdle |-> until_idle,
                  idleRoundsTarget |-> Max(1, idle_rounds),
                  loops |-> 0,
                  stagnantRounds |-> 0]
    /\ UNCHANGED notScrollVars

\* if (count <= prevCount), with delta = count - prevCount
StagnantRound(delta) == delta <= 0

\* step() of the injected script: one scroll to the bottom, then either the
\* end of the loop or setTimeout(step, wait)
ScrollStep(delta) ==
    /\ scroll.pc = "step" /\ scroll.loop = "js"
    /\ LET loops == Min(scroll.loops + 1, MaxScrollRounds)
           stagnantRounds == IF StagnantRound(delta) THEN scroll.stagnantRounds + 1 ELSE 0
           reachedMax == scroll.maxLoops > 0 /\ loops >= scroll.maxLoops
           reachedIdle == scroll.untilIdle /\ stagnantRounds >= scroll.idleRoundsTarget
       IN scroll' = [scroll EXCEPT !.loops = loops,
                                   !.stagnantRounds = stagnantRounds,
                                   !.pc = IF reachedMax \/ reachedIdle
                                          THEN "done" ELSE "step"]
    /\ UNCHANGED notScrollVars

\* math.ceil(a / b) for b > 0
Ceil(a, b) == -((-a) \div b)

\* the max_items scrape_listing is called with
MaxItemsInputs == {-20, 0, 50, 61, 100}

\* SaveeScraper._scroll_and_load up to its loop
ScrollAndLoad(max_items) ==
    /\ scroll.pc = "idle"
    /\ scroll' = [pc |-> "step", loop |-> "worker", max_items |-> max_items,
                  max_scrolls |-> Max(3, Ceil(max_items, 20)),
                  scroll_attempts |-> 0]
    /\ UNCHANGED notScrollVars

\* one turn of the while loop: with the height unchanged and no load-more
\* button the loop is left, otherwise the attempt is counted
ScrollAttempt(same_height, load_more) ==
    /\ scroll.pc = "step" /\ scroll.loop = "worker"
    /\ IF same_height /\ ~load_more
       THEN scroll' = [scroll EXCEPT !.pc = "done"]
       ELSE scroll' = [scroll EXCEPT
                          !.scroll_attempts = @ + 1,
                          !.pc = IF scroll.scroll_attempts + 1 < scroll.max_scrolls
                                 THEN "step" ELSE "done"]
    /\ UNCHANGED notScrollVars

NextScroll ==
    \/ \E scroll_steps \in ScrollSteps, until_idle \in BOOLEAN, idle_rounds \in IdleRounds :
           FetchListingHtml(scroll_steps, until_idle, idle_rounds)
    \/ \E delta \in Deltas : ScrollStep(delta)
    \/ \E max_items \in MaxItemsInputs : ScrollAndLoad(max_items)
    \/ \E same_height, load_more \in BOOLEAN : ScrollAttempt(same_height, load_more)

SpecScroll == Init /\ [][NextScroll]_vars

\* the timer of setTimeout fires, and the awaits of _scroll_and_load return
FairSpecScroll ==
    /\ SpecScroll
    /\ WF_vars(\E delta \in Deltas : ScrollStep(delta))
    /\ WF_vars(\E same_height, load_more \in BOOLEAN :
                   ScrollAttempt(same_height, load_more))

(* ------------------- the delay before a requeue ------------------------ *)
\* a delay without the cap
Uncapped(retry_count) == 2 ^ retry_count

\* handle_message_error: asyncio.sleep(min(2 ** retry_count, 60))
Backoff(retry_count) == Min(2 ^ retry_count, 60)

\* the last two of the delays
LastTwo(ds) == IF Len(ds) > 2 THEN Tail(ds) ELSE ds

\* slept notes, per job, the delay of every handle_message_error that takes
\* the retry branch
RecordDelay ==
    /\ slept' = [j \in JobIds |->
                    IF \E w \in Workers :
                           /\ cur[w] = j /\ pc[w] = "error" /\ pc'[w] = "idle"
                           /\ msgs[j].retry_count < msgs[j].max_retries
                    THEN LastTwo(Append(slept[j], Backoff(msgs[j].retry_count)))
                    ELSE slept[j]]
    /\ fails' = fails

\* the messages a consumer finds in its queue: job data with any retry_count
\* up to MaxRetryCount and the max_retries of a producer or one above every
\* retry_count; the item pages show no media, so every delivery fails
InitBackoff ==
    /\ InitCrawler
    /\ page = [e \in ExternalIds |-> BarePage]
    /\ nextJob = MaxJobs
    /\ msgs \in [JobIds ->
                    {[ItemJobData(uuid4(j), "/i/a", "s1")
                         EXCEPT !.retry_count = r, !.max_retries = m] :
                        j \in JobIds, r \in 0..MaxRetryCount,
                        m \in {DefaultMaxRetries, ItemMaxRetries, MaxRetryCount + 1}}]
    /\ \A j \in JobIds : msgs[j].job_id = uuid4(j)
    /\ loc = [j \in JobIds |-> "ready"]
    /\ fails = [j \in JobIds |-> 0]
    /\ pc = [w \in Workers |-> "idle"]
    /\ cur = [w \in Workers |-> 0]
    /\ item = [w \in Workers |-> NoItem]
    /\ keys = [w \in Workers |-> NoKeys]
    /\ err = [w \in Workers |-> "None"]
    /\ outcome = [w \in Workers |-> "none"]
    /\ settled = [w \in Workers |-> <<>>]
    /\ blocks = {} /\ nextId = 0 /\ overrides = {} /\ lastOp = NoOp
    /\ bucket = {} /\ puts = <<>> /\ calls = <<>>
    /\ rounds = 0 /\ runs = <<>> /\ job = NoRunJob /\ txn = "ok"
    /\ stored = {} /\ injected = {}
    /\ stopped = FALSE /\ held = {}
    /\ view = [read |-> FALSE, rows |-> {}, blocks |-> {}, overrides |-> {}]
    /\ job_concurrency = 2 /\ sem = 0
    /\ phase = [j \in SemJobs |-> "unstarted"]
    /\ slept = [j \in JobIds |-> <<>>]
    /\ upc = [c \in Callers |-> NoUpload]
    /\ scroll = NoScroll

NextBackoff ==
    \/ \E w \in Workers, j \in JobIds : Deliver(w, j) /\ RecordDelay
    \/ \E w \in Workers : Scrape(w) /\ RecordDelay
    \/ \E w \in Workers : HandleMessageError(w) /\ RecordDelay

SpecBackoff == InitBackoff /\ [][NextBackoff]_vars

(* ---------------- savee_scraper.py: the jobs of a round ---------------- *)
\* the values JOB_CONCURRENCY is set to
Concurrencies == {-1, 0, 1, 2, 3}

\* an exit of the semaphore block that keeps the slot
KeepSlot(value) == value

\* async with sem: __aexit__ releases the slot, on return and on exception
Release(value) == value + 1

\* main(): sem = asyncio.Semaphore(max(1, job_concurrency)), then the tasks of
\* the first round are gathered
MainStarts(c) ==
    /\ \A j \in SemJobs : phase[j] = "unstarted"
    /\ job_concurrency' = c
    /\ sem' = Max(1, c)
    /\ phase' = [j \in SemJobs |-> "waiting"]
    /\ UNCHANGED <<pipeVars, obsVars, dbVars, storeVars, discoverVars, crawlVars,
                   sweepVars, rounds, runVars, stopped, held, view,
                   lateVars>>

\* run_one_job: async with sem is entered
SemAcquire(j) ==
    /\ phase[j] = "waiting"
    /\ sem > 0
    /\ sem' = sem - 1
    /\ phase' = [phase EXCEPT ![j] = "inside"]
    /\ UNCHANGED <<job_concurrency, pipeVars, obsVars, dbVars, storeVars, discoverVars,
                   crawlVars, sweepVars, rounds, runVars, stopped, held, view,
                   lateVars>>

\* run_cycle returns its count
CycleReturns(j) ==
    /\ phase[j] = "inside"
    /\ sem' = Release(sem)
    /\ phase' = [phase EXCEPT ![j] = "returned"]
    /\ UNCHANGED <<job_concurrency, pipeVars, obsVars, dbVars, storeVars, discoverVars,
                   crawlVars, sweepVars, rounds, runVars, stopped, held, view,
                   lateVars>>

\* run_cycle raises; gather(return_exceptions=True) keeps the exception as the
\* result of the job
CycleRaises(j) ==
    /\ phase[j] = "inside"
    /\ sem' = Release(sem)
    /\ phase' = [phase EXCEPT ![j] = "raised"]
    /\ UNCHANGED <<job_concurrency, pipeVars, obsVars, dbVars, storeVars, discoverVars,
                   crawlVars, sweepVars, rounds, runVars, stopped, held, view,
                   lateVars>>

\* gather has every result; after the sleep the next round creates the tasks
NextRound ==
    /\ \A j \in SemJobs : phase[j] \in {"returned", "raised"}
    /\ phase' = [j \in SemJobs |-> "waiting"]
    /\ UNCHANGED <<job_concurrency, sem, pipeVars, obsVars, dbVars, storeVars,
                   discoverVars, crawlVars, sweepVars, rounds, runVars, stopped,
                   held, view, lateVars>>

NextSem ==
    \/ \E c \in Concurrencies : MainStarts(c)
    \/ \E j \in SemJobs : SemAcquire(j)
    \/ \E j \in SemJobs : CycleReturns(j)
    \/ \E j \in SemJobs : CycleRaises(j)
    \/ NextRound

SpecSem == Init /\ [][NextSem]_vars

(* ---------------------------- cms.v_blocks ----------------------------- *)
\* a view that reads the raw columns only
RawOnly(a, b) == b

\* COALESCE(a, b): a unless it is NULL
COALESCE(a, b) == IF a # Null THEN a[1] ELSE b

\* FROM core.blocks b LEFT JOIN cms.blocks_overrides o ON o.block_id = b.id:
\* the columns of o, which are all NULL for a block without an override row
LeftJoin(b, os) ==
    LET hit == {o \in os : o.block_id = b.id}
    IN IF hit = {}
       THEN [block_id |-> Null, title_override |-> Null,
             description_override |-> Null, tags_override |-> Null,
             status |-> Null, locked |-> Null, priority |-> Null]
       ELSE LET o == CHOOSE o \in hit : TRUE
            IN [block_id |-> Some(o.block_id), title_override |-> o.title_override,
                description_override |-> o.description_override,
                tags_override |-> o.tags_override, status |-> Some(o.status),
                locked |-> Some(o.locked), priority |-> Some(o.priority)]

\* the SELECT list of the view
MergedRow(b, o) ==
    [id |-> b.id, source_id |-> b.source_id, external_id |-> b.external_id,
     title |-> COALESCE(o.title_override, b.title_raw),
     description |-> COALESCE(o.description_override, b.description_raw),
     tags |-> COALESCE(o.tags_override, b.tags_raw),
     media_key |-> b.media_key, media_type |-> b.media_type,
     video_poster_key |-> b.video_poster_key, url |-> b.url,
     status |-> COALESCE(o.status, "draft"),
     locked |-> COALESCE(o.locked, FALSE),
     priority |-> COALESCE(o.priority, 0),
     has_overrides |-> IF o.block_id # Null THEN TRUE ELSE FALSE]

v_blocks(bs, os) == {MergedRow(b, LeftJoin(b, os)) : b \in bs}

\* SELECT * FROM cms.v_blocks
ReadView ==
    /\ view' = [read |-> TRUE, rows |-> v_blocks(blocks, overrides),
                blocks |-> blocks, overrides |-> overrides]
    /\ UNCHANGED <<pipeVars, obsVars, dbVars, storeVars, discoverVars, crawlVars,
                   sweepVars, rounds, runVars, stopped, held, semVars, lateVars>>

\* the editorial fields update_override is called with
EditorialUpdates ==
    {[key |-> k, value |-> v] :
        k \in {"title_override", "description_override"}, v \in {Null, Some(""), Some("T")}}
    \cup {[key |-> "tags_override", value |-> v] : v \in {Null, Some(<<>>), Some(<<"x">>)}}
    \cup {[key |-> "locked", value |-> TRUE]}

NextView ==
    \/ \E it \in ScrapedItems, s \in Sources :
           \E k \in CliUploads(it) :
               CliUpsertBlock(s, it, k.media_key, k.video_poster_key) /\ UNCHANGED obsVars
    \/ \E b \in 1..nextId, t \in {Null, Some("T")} :
           CreateOverride(b, t) /\ UNCHANGED obsVars
    \/ \E b \in 1..nextId, u \in EditorialUpdates :
           UpdateOverride(b, u.key, u.value) /\ UNCHANGED obsVars
    \/ \E b \in 1..nextId : DeleteOverride(b) /\ UNCHANGED obsVars
    \/ ReadView

SpecView == Init /\ [][NextView]_vars

(* ------------------------------ shutdown ------------------------------- *)
\* a finally clause that acks the delivery of a cancelled worker
AckOnClose(l) == IF l = "inflight" THEN "acked" ELSE l

\* JobConsumer.stop closes the connection: the broker returns every delivery
\* that was not acknowledged to its queue
CloseConnection(l) == IF l = "inflight" THEN "ready" ELSE l

\* signal_handler sets shutdown_event; WorkerApplication.start wakes up and
\* its finally clause runs stop(), which cancels the consumer task.  The
\* CancelledError is raised in every worker at the await it rests at; it is
\* no Exception, so neither except clause of _consume_worker handles it: the
\* delivery a worker holds is neither acked nor nacked.  The finally clause
\* of ConsumerManager.start_all then runs stop_all.
Shutdown ==
    /\ ~stopped
    /\ stopped' = TRUE
    /\ held' = {j \in JobIds : loc[j] = "inflight"}
    /\ loc' = [j \in JobIds |-> CloseConnection(loc[j])]
    /\ pc' = [w \in Workers |-> "cancelled"]
    /\ outcome' = [w \in Workers |-> IF pc[w] \in {"idle", "ack", "error"}
                                    THEN outcome[w] ELSE "cancelled"]
    /\ UNCHANGED <<nextJob, msgs, cur, item, keys, err, settled, page, dbVars,
                   storeVars, discoverVars, crawlVars, sweepVars, rounds, runVars,
                   view, semVars, lateVars>>

NextShutdown ==
    \/ \E u \in ItemUrls, s \in Sources : QueueItemJob(u, s) /\ UNCHANGED obsVars
    \/ \E j \in JobIds : ExpireMessage(j) /\ UNCHANGED obsVars
    \/ \E e \in ExternalIds : SiteChange(e) /\ UNCHANGED obsVars
    \/ \E w \in Workers, j \in JobIds : Deliver(w, j) /\ UNCHANGED obsVars
    \/ \E w \in Workers : Scrape(w) /\ UNCHANGED obsVars
    \/ \E w \in Workers : CheckExisting(w) /\ UNCHANGED obsVars
    \/ \E w \in Workers : Upload(w) /\ UNCHANGED obsVars
    \/ \E w \in Workers : Insert(w) /\ UNCHANGED obsVars
    \/ \E w \in Workers : Ack(w) /\ UNCHANGED obsVars
    \/ \E w \in Workers : AckLost(w) /\ UNCHANGED obsVars
    \/ \E w \in Workers : HandleMessageError(w) /\ UNCHANGED obsVars
    \/ Shutdown /\ UNCHANGED obsVars

SpecShutdown == Init /\ [][NextShutdown]_vars

(* ------------------------ the dead-letter queues ----------------------- *)
\* queue names and routing keys, as their dot-separated parts
SweepTail == <<"sweep", "tail">>
SweepBackfill == <<"sweep", "backfill">>
ItemJobs == <<"item", "jobs">>
ItemDlq == <<"item", "dlq">>

\* JobProducer._declare_queues: the (queue_name, routing_key) pairs
MainQueues == {SweepTail, SweepBackfill, ItemJobs, ItemDlq}

\* dlq_name = f"{queue_name}.dlq"
DlqName(queue_name) == Append(queue_name, "dlq")

\* a dead-letter queue that hands its expired messages back to the main queue
RequeueArguments(queue_name) ==
    [x_message_ttl |-> 86400000, x_dead_letter_routing_key |-> <<queue_name>>]

\* the arguments the dead-letter queue is declared with: a TTL of 24 hours and
\* no dead-letter exchange
DlqArguments(queue_name) ==
    [x_message_ttl |-> 86400000, x_dead_letter_routing_key |-> <<>>]

\* the arguments the main queue is declared with
MainArguments(routing_key) ==
    [x_message_ttl |-> 3600000, x_dead_letter_routing_key |-> <<DlqName(routing_key)>>]

DeclaredQueues == MainQueues \cup {DlqName(q) : q \in MainQueues}

Arguments(q) ==
    IF q \in MainQueues THEN MainArguments(q)
    ELSE DlqArguments(CHOOSE m \in MainQueues : DlqName(m) = q)

\* queue.bind(self.exchange, routing_key); dlq.bind(self.exchange, f"{routing_key}.dlq")
Bindings ==
    {<<q, q>> : q \in MainQueues} \cup {<<DlqName(q), DlqName(q)>> : q \in MainQueues}

\* the direct exchange delivers to the queues bound with the routing key
RoutedTo(routing_key) == {q \in DeclaredQueues : <<q, routing_key>> \in Bindings}

\* where the broker puts a message that is dead-lettered from queue q
DeadLetterTargets(q) ==
    LET key == Arguments(q).x_dead_letter_routing_key
    IN IF key = <<>> THEN {} ELSE RoutedTo(key[1])

\* ConsumerManager.start_all: the queues of the consumers it creates
ConsumedQueues == {SweepTail, SweepBackfill, ItemJobs}

\* the place of an item job that the broker routed to the queues qs
LocOf(qs) ==
    IF ItemJobs \in qs THEN "ready"
    ELSE IF DlqName(ItemJobs) \in qs THEN "dlq"
    ELSE "dropped"

\* x-message-ttl of the dead-letter queue: a message that outlives it leaves
\* the queue
DlqExpire(j) ==
    /\ loc[j] = "dlq"
    /\ loc' = [loc EXCEPT ![j] = LocOf(DeadLetterTargets(DlqName(ItemJobs)))]
    /\ UNCHANGED <<nextJob, msgs, workerVars, page, dbVars, storeVars, crawlerVars>>

\* a consumer of queue q takes a message that waits in it
Consume(w, j, q) ==
    /\ q \in ConsumedQueues
    /\ LocOf({q}) = loc[j]
    /\ Deliver(w, j)

NextDlq ==
    \/ \E u \in ItemUrls, s \in Sources : QueueItemJob(u, s) /\ UNCHANGED obsVars
    \/ \E j \in JobIds : ExpireMessage(j) /\ UNCHANGED obsVars
    \/ \E j \in JobIds : DlqExpire(j) /\ UNCHANGED obsVars
    \/ \E e \in ExternalIds : SiteChange(e) /\ UNCHANGED obsVars
    \/ \E w \in Workers, j \in JobIds, q \in DeclaredQueues : Consume(w, j, q) /\ UNCHANGED obsVars
    \/ \E w \in Workers : Scrape(w) /\ UNCHANGED obsVars
    \/ \E w \in Workers : CheckExisting(w) /\ UNCHANGED obsVars
    \/ \E w \in Workers : Upload(w) /\ UNCHANGED obsVars
    \/ \E w \in Workers : Insert(w) /\ UNCHANGED obsVars
    \/ \E w \in Workers : Ack(w) /\ UNCHANGED obsVars
    \/ \E w \in Workers : AckLost(w) /\ UNCHANGED obsVars
    \/ \E w \in Workers : HandleMessageError(w) /\ UNCHANGED obsVars

SpecDlq == Init /\ [][NextDlq]_vars

(* =============================== claims ================================ *)
Range(f) == {f[i] : i \in DOMAIN f}

Published(j) == loc[j] # "unpublished"

\* the scraped columns of a row, and what a ScrapedItem gives for them
ScrapedColumns(r) ==
    [title_raw |-> r.title_raw, description_raw |-> r.description_raw,
     tags_raw |-> r.tags_raw, media_type |-> r.media_type, url |-> r.url,
     source_original_url |-> r.source_original_url]

ItemColumns(it) ==
    [title_raw |-> it.title, description_raw |-> it.description, tags_raw |-> it.tags,
     media_type |-> it.media_type, url |-> it.source_url,
     source_original_url |-> it.media_url]

\* C1: a job whose processing fails on every delivery is in the dead-letter
\* queue once it has failed max_retries times, with retry_count = max_retries.
\* (Stated for the moments at which no worker holds the message.)
C1_DeadLetteredAtMaxRetries ==
    \A j \in JobIds :
        (Published(j) /\ loc[j] # "inflight" /\ fails[j] >= msgs[j].max_retries)
            => (loc[j] = "dlq" /\ msgs[j].retry_count = msgs[j].max_retries)

C3_RetryCountFollowsFailures ==
    \A j \in JobIds :
        (loc[j] = "ready" /\ fails[j] <= msgs[j].max_retries)
            => /\ msgs[j].retry_count = fails[j]
               /\ (fails[j] > 0 => msgs[j].last_error # "None")

\* C4: core.blocks never holds two rows with the same (source_id, external_id).
C4_OneRowPerKey ==
    \A r1 \in blocks, r2 \in blocks :
        (r1.source_id = r2.source_id /\ r1.external_id = r2.external_id) => r1 = r2

\* C4 witness: a worker reached the INSERT for a key that another delivery
\* had inserted in the meantime.
C4_Witness ==
    \E w \in Workers :
        /\ pc[w] = "error"
        /\ err[w] = "IntegrityError"
        /\ RowsOf(blocks, msgs[cur[w]].source_id, item[w].external_id) # {}

\* C7: when process_message of an item job returns, the block of the item
\* carries the values of that scrape.
C7_LastWriteWins ==
    \A w \in Workers :
        pc[w] = "ack"
            => \E r \in RowsOf(blocks, msgs[cur[w]].source_id, item[w].external_id) :
                   ScrapedColumns(r) = ItemColumns(item[w])

\* C8: no item job fails with a uniqueness conflict.
C8_NoConflictSurfaced ==
    \A w \in Workers : err[w] # "IntegrityError"

\* C9: a delivery is settled at most once, it is acked only if its
\* process_message returned, and never if it raised.
C9_AckOnlyAfterSuccess ==
    \A w \in Workers :
        /\ Len(settled[w]) <= 1
        /\ ("ack" \in Range(settled[w]) => outcome[w] = "returned")
        /\ (outcome[w] = "raised" => "ack" \notin Range(settled[w]))

\* C9 witness: one delivery was acked after its processing returned, another
\* was nacked for requeue after its processing raised.
C9_Witness ==
    \E w1 \in Workers, w2 \in Workers :
        /\ settled[w1] = <<"ack">> /\ outcome[w1] = "returned"
        /\ settled[w2] = <<"nack_requeue">> /\ outcome[w2] = "raised"

\* the rows of the key of the latest upsert call
LastOpRows == RowsOf(blocks, lastOp.data.source_id, lastOp.data.external_id)

C6_IngestionLeavesOverrides ==
    [][(blocks' # blocks \/ lastOp' # lastOp) => overrides' = overrides]_vars

\* C6 witness: an upsert replaced differing values in a block that had an
\* override row, and the override row is there.
C6_Witness ==
    /\ lastOp.ok /\ lastOp.conflict /\ lastOp.changed /\ lastOp.had_override
    /\ \E o \in overrides : o.block_id = lastOp.block_id /\ o.locked

\* C37: an upsert call that hits a row of its (source_id, external_id) leaves
\* that row's id, source_id, external_id and created_at as they were, and an
\* override row of that block id is an override row of the same block after
\* the call.
C37_UpsertKeepsIdentity ==
    [][(lastOp' # lastOp /\ lastOp'.conflict) =>
           \A r \in RowsOf(blocks, lastOp'.data.source_id, lastOp'.data.external_id) :
               /\ \E q \in blocks' :
                      /\ q.id = r.id /\ q.created_at = r.created_at
                      /\ q.source_id = r.source_id /\ q.external_id = r.external_id
               /\ \A o \in overrides : o.block_id = r.id => o \in overrides']_vars

\* C37 witness: the row of an override was upserted a second time with
\* differing values after a later row had been inserted, and it is the row
\* the override names.
C37_Witness ==
    /\ lastOp.ok /\ lastOp.conflict /\ lastOp.changed /\ lastOp.had_override
    /\ \E r \in blocks, o \in overrides :
           /\ o.block_id = r.id /\ r.id = lastOp.block_id
           /\ r.source_id = lastOp.data.source_id
           /\ r.external_id = lastOp.data.external_id
           /\ RawFields(r) = RawFields(lastOp.data)
           /\ \E q \in blocks : q.created_at > r.created_at

\* the suffixes _get_file_extension knows
RecognisedSuffixes == {".jpg", ".jpeg", ".png", ".gif", ".webp", ".mp4", ".webm"}

\* the variant in the key an upload returns
PrimaryVariant(op) == IF op = "upload_video" THEN "video" ELSE "original"

\* the extension for a URL whose suffix is not a known one
FallbackExt(op) == IF op = "upload_video" THEN ".mp4" ELSE ".jpg"

\* C38: the key an upload returns is {base_key}/{variant}_{hash}{ext}, with
\* hash the first 16 characters of the hex digest of the downloaded bytes and
\* ext the one of the URL's path suffix, or, for a suffix that is not
\* recognised, .jpg from upload_image and .mp4 from upload_video.
C38_ObjectKeyForm ==
    \A i \in 1..Len(calls) :
        LET c == calls[i]
        IN c.result = "returned" =>
               c.key = ObjectKey(c.base_key, PrimaryVariant(c.op), ContentHash(c.data),
                                 IF Lower(c.image_url[2]) \in RecognisedSuffixes
                                 THEN GetFileExtension(c.image_url)
                                 ELSE FallbackExt(c.op))

\* the rounds a running or finished scroll loop has made are within its limit
ScrollBounded ==
    /\ (scroll.loop = "js" /\ scroll.maxLoops > 0) =>
           /\ scroll.loops <= scroll.maxLoops
           /\ scroll.pc = "step" => scroll.loops < scroll.maxLoops
    /\ (scroll.loop = "js" /\ scroll.untilIdle /\ scroll.pc = "step") =>
           scroll.stagnantRounds < scroll.idleRoundsTarget
    /\ scroll.loop = "worker" =>
           /\ scroll.scroll_attempts <= Max(3, Ceil(scroll.max_items, 20))
           /\ scroll.pc = "step" =>
                  scroll.scroll_attempts < Max(3, Ceil(scroll.max_items, 20))

\* a scroll loop that runs comes to its end
ScrollStops == (scroll.pc = "step") ~> (scroll.pc = "done")

C10_SecondUploadPutsNothing ==
    \A i \in 1..(Len(calls) - 1) :
        LET first == calls[i]
            second == calls[i + 1]
        IN (/\ first.result = "returned" /\ second.result = "returned"
            /\ first.image_url = second.image_url
            /\ first.base_key = second.base_key
            /\ first.data = second.data)
               => /\ first.key = second.key
                  /\ ~second.put
                  /\ puts[second.key] = 1

\* C10 witness: the first of two such calls wrote the object, the second
\* returned its key.
C10_Witness ==
    \E i \in 1..(Len(calls) - 1) :
        /\ calls[i].result = "returned" /\ calls[i].put
        /\ calls[i + 1].result = "returned"
        /\ calls[i].image_url = calls[i + 1].image_url
        /\ calls[i].base_key = calls[i + 1].base_key
        /\ calls[i].data = calls[i + 1].data
        /\ calls[i + 1].key \in bucket

\* the item id an element of the page shows: the id of a grid item, or the
\* run of class characters after /i/
ElementId(e) == IF e.kind = "grid" THEN e.tok ELSE ClassRun(e.tok)

\* 5 to 24 characters of [A-Za-z0-9_-], and no placeholder token
StrictId(x) ==
    /\ Len(x) \in 5..24
    /\ \A i \in DOMAIN x : x[i] \in ClassChars
    /\ x # TokUndefined

ValidIdsOnPage == {x \in {ElementId(listing[i]) : i \in DOMAIN listing} : StrictId(x)}

FirstPosition(x) ==
    CHOOSE i \in DOMAIN listing :
        /\ ElementId(listing[i]) = x
        /\ \A k \in 1..(i - 1) : ElementId(listing[k]) # x

\* C11: the links returned name each valid id of the page once, and nothing
\* else: every id returned has 5 to 24 class characters and is no placeholder.
C11_EveryValidIdOnce ==
    discovered
        => /\ \A i \in DOMAIN links, k \in DOMAIN links : links[i] = links[k] => i = k
           /\ \A i \in DOMAIN links : StrictId(links[i])
           /\ Range(links) = ValidIdsOnPage

\* C11 witness: a page that shows one id twice, next to the placeholder
\* "undefined", was searched.
C11_Witness ==
    /\ discovered
    /\ Len(links) = 1
    /\ \E i \in DOMAIN listing, k \in DOMAIN listing :
           i # k /\ ElementId(listing[i]) = ElementId(listing[k])
                 /\ StrictId(ElementId(listing[i]))
    /\ \E i \in DOMAIN listing : listing[i].tok = TokUndefined

\* C12: the links are returned in the order in which their ids first appear
\* on the page.
C12_FirstAppearanceOrder ==
    discovered
        => \A i \in DOMAIN links, k \in DOMAIN links :
               i < k => FirstPosition(links[i]) < FirstPosition(links[k])

\* the ids a job completed that are not in its seen.json
Unsaved(j) == {x \in completed[j] : x \notin seenFile[DirOf(j)]}

\* the ids a cycle has added to seen since its loop began
AddedInCycle(j) == cseen[j] \ cstart[j]

\* C13: an id that is in seen when a cycle starts is not processed in that
\* cycle, and while the process was never killed no job completes
\* process_item twice for one id.
C13_ProcessedAtMostOnce ==
    \A j \in CrawlJobs :
        /\ cpc[j] \in {"item", "record"} => CurrentId(j) \notin cstart[j]
        /\ ~crashed => again[j] = {}

\* C14: while a cycle runs, fewer than FlushEvery of the ids it has processed
\* successfully are missing from seen.json.
C14_FewerThanFiveUnsaved ==
    \A j \in CrawlJobs :
        cpc[j] # "idle" => Cardinality(Unsaved(j)) < FlushEvery

\* C15: every id in seen, in memory or in seen.json, is an id whose
\* process_item completed (its meta.json is written).
C15_SeenOnlyAfterCompleted ==
    \A j \in CrawlJobs :
        \A x \in cseen[j] \cup seenFile[DirOf(j)] : x \in metas[DirOf(j)]

\* C16: no step removes an id from a seen.json.
C16_SeenFileOnlyGrows ==
    [][\A d \in DirNames : seenFile[d] \subseteq seenFile'[d]]_vars

\* C17: every id that some cycle saved to a seen.json is still in it.
C17_NoSavedIdLost ==
    \A d \in DirNames : everSaved[d] \subseteq seenFile[d]

\* C18: a job with its own URL skips only ids that it handled itself: what is
\* in its seen was never put there by the work of another job.
C18_JobsDoNotShareSeen ==
    \A j \in CrawlJobs :
        (\A k \in CrawlJobs \ {j} : cfg.jobs[k].url # cfg.jobs[j].url)
            => cseen[j] \subseteq touched[j]

\* C19: a cycle adds at most max_items_per_cycle ids to seen, exactly the
\* processed_count ids that its loop has passed and completed; the links
\* the loop has not reached are not added.
C19_CapAndOnlyProcessedAdded ==
    \A j \in CrawlJobs :
        cpc[j] # "idle"
            => /\ ccount[j] <= cfg.max_items_per_cycle
               /\ Cardinality(AddedInCycle(j)) = ccount[j]
               /\ \A x \in AddedInCycle(j) :
                      /\ x \in completed[j]
                      /\ \E i \in 1..(cidx[j] - 1) : clinks[j][i] = x

\* C19 witness: the loop stopped at the cap with a link left that is not in
\* seen.
C19_Witness ==
    \E j \in CrawlJobs :
        /\ cpc[j] = "loop"
        /\ ccount[j] = cfg.max_items_per_cycle
        /\ cidx[j] <= Len(clinks[j])
        /\ clinks[j][cidx[j]] \notin cseen[j]

\* C20: when a listing that does not change is swept again and again, every
\* link on it is eventually queued as an item job.
C20_EveryLinkEventuallyEnqueued ==
    <>(\A i \in DOMAIN sweepPage : sweepPage[i] \in enqueued)

\* ceil(n / d)
CeilDiv(n, d) == (n + d - 1) \div d

\* the ids of the listing
ListedIds == {ItemId(n) : n \in 1..feed}

\* the cycles the listing needs
CyclesNeeded == CeilDiv(feed, cfg.max_items_per_cycle)

\* C21: on a listing that stays as it is, the cycles eventually process every
\* id; after ceil(n / max_items_per_cycle) cycles every id is processed, and
\* from then on no cycle processes anything.
C21_ListingDrained ==
    /\ <>(\A j \in CrawlJobs : ListedIds \subseteq completed[j])
    /\ [](\A j \in CrawlJobs :
              rounds >= CyclesNeeded
                  => /\ ListedIds \subseteq completed[j]
                     /\ cpc[j] \notin {"item", "record"}
                     /\ again[j] = {})

\* C21 witness: a listing longer than the cap is processed to its end when
\* the last of the cycles it needs has ended, and not one cycle earlier.
C21_Witness ==
    /\ CrawlJobs # {}
    /\ feed > cfg.max_items_per_cycle
    /\ rounds = CyclesNeeded
    /\ \A j \in CrawlJobs :
           /\ ListedIds \subseteq completed[j]
           /\ ListedIds \subseteq seenFile[DirOf(j)]

TerminalStatuses == {"completed", "failed", "success", "error"}

\* C22: a Run row starts as running with no finished_at; when the handler
\* that created it has ended, by a return or by an exception, the row has a
\* terminal status and a finished_at; a row with finished_at is terminal.
C22_RunEndsOnce ==
    /\ \A i \in DOMAIN runs :
           runs[i].finished_at <=> runs[i].status \in TerminalStatuses
    /\ job.pc = "ended"
           => /\ runs[job.run].status \in TerminalStatuses
              /\ runs[job.run].finished_at

\* C23: a run whose listing page could not be loaded does not end as
\* completed or success, and ends with an error message.
C23_UnreachableListingFailsRun ==
    (job.pc = "ended" /\ job.outcome = "returned" /\ ~job.loaded)
        => /\ runs[job.run].status \in {"failed", "error"}
           /\ runs[job.run].error # ""

\* the items of the CLI run that is being handled
RunItemIds == {<<job.run, i>> : i \in 1..job.at}

\* C24: in a CLI run every failure made for one item counts one error, the
\* items that were not made to fail are persisted (but for the unsupported
\* ones), and the run returns as a success.
C24_ItemFailureIsolated ==
    job.mode = "cli"
        => /\ job.counters.errors = Cardinality(RunItemIds \cap injected)
           /\ \A i \in 1..job.at :
                  (<<job.run, i>> \notin injected /\ job.todo[i] # "text")
                      => <<job.run, i>> \in stored
           /\ RunItemIds \cap injected \cap stored = {}
           /\ (job.pc = "ended" /\ job.outcome # "cancelled")
                  => /\ job.outcome = "returned"
                     /\ runs[job.run].status = "success"

\* C25: the dead-letter queue is terminal.  A job that rests in the
\* dead-letter queue is not delivered to a consumer and does not return to the
\* main queue: in every step it stays in the dead-letter queue or is dropped
\* from it, and a job dropped from it stays dropped.
C25_DeadLetterQueueTerminal ==
    [][\A j \in JobIds :
          /\ loc[j] = "dlq" => loc'[j] \in {"dlq", "dropped"}
          /\ loc[j] = "dropped" => loc'[j] = "dropped"]_vars

\* two jobs were dead-lettered; one has left the dead-letter queue since, the
\* other rests in it, while a worker that has settled a delivery waits for
\* the next message
C25_Witness ==
    /\ \E w \in Workers : settled[w] # <<>> /\ pc[w] = "idle"
    /\ \E j \in JobIds : loc[j] = "dlq"
    /\ \E j \in JobIds : loc[j] = "dropped"
    /\ \A w \in Workers : pc[w] = "idle"

C27_MergedView ==
    view.read =>
        \A b \in view.blocks :
            LET rows == {v \in view.rows : v.id = b.id}
                os == {o \in view.overrides : o.block_id = b.id}
                Set(field) == \E o \in os : o[field] # Null
                Value(field) == (CHOOSE o \in os : TRUE)[field][1]
            IN /\ Cardinality(rows) = 1
               /\ \A v \in rows :
                     /\ v.title = IF Set("title_override")
                                  THEN Value("title_override") ELSE b.title_raw
                     /\ v.description = IF Set("description_override")
                                        THEN Value("description_override")
                                        ELSE b.description_raw
                     /\ v.tags = IF Set("tags_override")
                                 THEN Value("tags_override") ELSE b.tags_raw
                     /\ v.has_overrides <=> os # {}
                     /\ os = {} => /\ v.status = "draft"
                                   /\ v.locked = FALSE
                                   /\ v.priority = 0

\* a read of a block whose override sets an empty title and tags and leaves
\* the description unset
C27_Witness ==
    /\ view.read
    /\ \E v \in view.rows, o \in view.overrides, b \in view.blocks :
          /\ o.block_id = v.id /\ b.id = v.id
          /\ o.title_override = Some("") /\ v.title = ""
          /\ o.description_override = Null /\ v.description = b.description_raw
          /\ o.tags_override = Some(<<"x">>) /\ v.tags = <<"x">>
          /\ v.has_overrides

\* the call an upload step adds to calls
LastCall == calls'[Len(calls')]

\* the objects of the thumbnails
Thumbnails == {k \in bucket' \ bucket : k[2] \in Range(ThumbnailSizes)}

\* C28: upload_image and upload_video raise and return no key when the
\* download fails, and write no object then; they raise when the existence
\* check or the put of the primary object fails, and write no thumbnail then.
C28_UploadFailsWithoutWrites ==
    [][calls' # calls =>
          (/\ LastCall.fault = "download"
                 => /\ LastCall.result = "raised" /\ LastCall.key = NoKey
                    /\ bucket' = bucket /\ puts' = puts
           /\ LastCall.fault = "storage"
                 => /\ LastCall.result = "raised" /\ LastCall.key = NoKey
                    /\ Thumbnails = {})]_vars

\* calls of both operations have failed on the download and on the primary
\* object, with objects of earlier calls in the bucket
C28_Witness ==
    /\ bucket # {}
    /\ \E i, j \in DOMAIN calls :
          /\ calls[i].op = "upload_image" /\ calls[i].fault = "storage"
          /\ calls[j].op = "upload_video" /\ calls[j].fault = "download"

\* C29: upload_image returns the key of the primary object whenever the
\* download and the existence check or put of the primary object succeed,
\* whatever happens to the thumbnails; the primary object is in the bucket.
C29_ThumbnailFailureSwallowed ==
    [][(/\ calls' # calls
        /\ LastCall.op = "upload_image"
        /\ LastCall.fault \in {"thumbnail", "none"})
           => /\ LastCall.result = "returned"
              /\ LastCall.key # NoKey
              /\ LastCall.key[2] = "original"
              /\ LastCall.key \in bucket']_vars

\* an upload_image call whose thumbnails failed after two of them were written
C29_Witness ==
    \E i \in DOMAIN calls :
        /\ calls[i].op = "upload_image" /\ calls[i].fault = "thumbnail"
        /\ calls[i].result = "returned" /\ calls[i].put
        /\ \E k \in bucket : k[1] = calls[i].base_key /\ k[2] = "small"
        /\ \A k \in bucket : k[2] \notin {"medium", "large"}

\* C30: a failed upload never fails the item: the processing of no delivery
\* ends by the exception of an upload.
C30_UploadFailureNeverFailsItem ==
    \A w \in Workers : ~(outcome[w] = "raised" /\ err[w] = "UploadError")

\* the jobs of the two producers
PublishedSweepJobs == {j \in JobIds : Published(j) /\ "sweep_type" \in DOMAIN msgs[j]}
PublishedItemJobs == {j \in JobIds : Published(j) /\ "sweep_type" \notin DOMAIN msgs[j]}

\* C31: a job is published with retry_count 0, and with max_retries 3 by
\* queue_sweep_job and 5 by queue_item_job; no two published jobs have the
\* same job_id.
C31_PublishedJobData ==
    /\ \A j \in PublishedSweepJobs : msgs[j].retry_count = 0 /\ msgs[j].max_retries = 3
    /\ \A j \in PublishedItemJobs : msgs[j].retry_count = 0 /\ msgs[j].max_retries = 5
    /\ \A i, j \in JobIds :
          (Published(i) /\ Published(j) /\ i # j) => msgs[i].job_id # msgs[j].job_id

\* a sweep job and an item job are published, and the item job has been
\* delivered and requeued after a failure
C31_Witness ==
    /\ PublishedSweepJobs # {}
    /\ \E j \in PublishedItemJobs : loc[j] = "ready"
    /\ \E w \in Workers : settled[w] = <<"nack_requeue">>

\* the listing jobs that are inside run_cycle
Inside == {j \in SemJobs : phase[j] = "inside"}

\* C32: at most max(1, JOB_CONCURRENCY) listing jobs are inside run_cycle at
\* once; every cycle that has ended, by return or by exception, has given its
\* slot back, so a waiting job finds a free slot whenever fewer than that many
\* jobs are inside, and a round ends only when every job has run in it.
C32_SlotsBounded ==
    [][(\E j \in SemJobs : phase[j] # "unstarted") =>
          /\ Cardinality(Inside) <= Max(1, job_concurrency)
          /\ sem = Max(1, job_concurrency) - Cardinality(Inside)
          /\ (\A j \in SemJobs : phase'[j] = "waiting")
                 => \A j \in SemJobs : phase[j] \in {"unstarted", "returned", "raised"}]_vars

\* JOB_CONCURRENCY is 0: a cycle has ended with an exception, the next job
\* holds the only slot and the third waits for it
C32_Witness ==
    /\ job_concurrency = 0
    /\ \E i, j, k \in SemJobs :
          phase[i] = "raised" /\ phase[j] = "inside" /\ phase[k] = "waiting"

\* C33: the delay before a failed job is requeued is min(2^r, 60) seconds for
\* the retry_count r of the job; it is at most 60 seconds, and the delay of a
\* retry is not shorter than the delay of the retry of the job before it.
C33_BackoffCappedAndMonotone ==
    \A j \in JobIds :
        /\ \A i \in DOMAIN slept[j] :
              /\ slept[j][i] = Min(2 ^ msgs[j].retry_count, 60)
              /\ slept[j][i] <= 60
        /\ Len(slept[j]) = 2 => slept[j][1] <= slept[j][2]

\* a job that carries retry_count 6 has been requeued twice after 60 seconds,
\* and a job that carries retry_count 0 after one second
C33_Witness ==
    \E i, j \in JobIds :
        /\ msgs[i].retry_count = 6 /\ slept[i] = <<60, 60>>
        /\ msgs[j].retry_count = 0 /\ slept[j] = <<1>>

\* the workers that hold a delivery of job j
Holders(j) == {w \in Workers : cur[w] = j}

\* C34: a published job is in exactly one place: it waits in its main queue,
\* is in flight at exactly one worker, is acknowledged, or rests in the
\* dead-letter queue; it is never gone.
C34_PublishedJobInOnePlace ==
    \A j \in JobIds :
        Published(j) =>
            /\ loc[j] \in {"ready", "inflight", "acked", "dlq"}
            /\ loc[j] = "inflight" <=> Cardinality(Holders(j)) = 1
            /\ Cardinality(Holders(j)) <= 1

\* C35: however upload_file calls for one key interleave, at most one put is
\* made for the key.
C35_OnePutPerKey ==
    \A key \in DOMAIN puts : puts[key] <= 1

\* C36: in a CLI run items_upserted <= items_uploaded <= items_found and
\* items_upserted + errors <= items_found; no counter is negative, and no
\* counter decreases while the run is handled.
C36_CountersOrdered ==
    [][job'.mode = "cli" =>
          LET c == job'.counters
          IN /\ c.items_upserted <= c.items_uploaded
             /\ c.items_uploaded <= c.items_found
             /\ c.items_upserted + c.errors <= c.items_found
             /\ \A f \in DOMAIN c : c[f] >= 0
             /\ job'.run = job.run => \A f \in DOMAIN c : c[f] >= job.counters[f]]_vars

\* a CLI run of two items has ended: both were uploaded, one was upserted and
\* the other counted as an error
C36_Witness ==
    /\ job.mode = "cli" /\ job.pc = "ended"
    /\ job.counters = [items_found |-> 2, items_uploaded |-> 2,
                       items_upserted |-> 1, errors |-> 1]

====
